---- MODULE Spec2Model ----
(***************************************************************************)
(* Notification / audit subsystem of the production quality tracker.       *)
(*                                                                         *)
(* The store is the SQLite database of utils/data_models.py: the           *)
(* notifications table, the audit_log table and the users table.  Every    *)
(* operation of utils/notifications.py is one action; the value it         *)
(* returns to its caller and what its primary statement did are recorded   *)
(* in the variable last, so that properties can speak about results.       *)
(***************************************************************************)
EXTENDS Integers, Sequences, FiniteSets, TLC

(* ------------------------------------------------------------------ *)
(* Bounds of the model                                                *)
(* ------------------------------------------------------------------ *)

\* Largest notification_id AUTOINCREMENT hands out in a run.
MaxId == 3

\* Largest value of the clock (CURRENT_TIMESTAMP, in seconds).
MaxTime == 1

\* Largest number of rows the audit_log table holds in a run.
MaxAudit == 1

\* Largest number of rows of data/issues.csv and of data/tasks.csv in a run.
MaxRows == 1

\* Largest number of rows of the users table in a run.
MaxUsers == 4

\* Latest hour, counted from the start of a run, at which a page is loaded.
MaxHours == 12

(* ------------------------------------------------------------------ *)
(* Values                                                             *)
(* ------------------------------------------------------------------ *)

\* SQL NULL / Python None for integer-valued columns (ids, timestamps).
NULL == -1

\* A key that st.session_state does not hold (`key in st.session_state` is
\* False), for the integer-valued key session_expiry.
Absent == -2

\* Python None for the optional string argument details.
PyNone == "<None>"

\* Python bool is a subclass of int: True == 1 and False == 0.
PyBool(b) == [type |-> "bool", value |-> IF b THEN 1 ELSE 0]

PyTrue == PyBool(TRUE)

PyFalse == PyBool(FALSE)

\* A call that ends with an exception instead of a value.
Raised == [type |-> "raised", value |-> 0]

\* The users the seed inserts (user_id -> role), cut to the first three.
SeedUsers == (1 :> "operator") @@ (2 :> "inspector") @@ (3 :> "manager")

Users == DOMAIN SeedUsers

VARIABLES
    notifications,  \* rows of the notifications table, in rowid order
    next_id,        \* next value of the AUTOINCREMENT notification_id
    audit_log,      \* rows of the audit_log table, in rowid order
    users,          \* the users table: user_id -> role
    session,        \* st.session_state of the acting session
    now,            \* the latest CURRENT_TIMESTAMP a statement has stored
    csv,            \* the files data/issues.csv, tasks.csv, modules.csv, projects.csv
    procs,          \* concurrent sessions: the call each is in and how far it got
    wall,           \* datetime.now() of the acting session's page pass, in hours
    last            \* the operation just run: its arguments and its result

vars == <<notifications, next_id, audit_log, users, session, now, csv, procs, wall, last>>

(* ------------------------------------------------------------------ *)
(* Notification type registry                                         *)
(* ------------------------------------------------------------------ *)

\* A template is a sequence of text pieces; the piece "{details}" is the
\* replacement field of str.format.
NOTIFICATION_TYPES ==
    [task_assigned |->
        [icon |-> "clipboard", color |-> "#4CAF50",
         title_template |-> <<"New Task Assigned">>,
         message_template |-> <<"You have been assigned a new task: ", "{details}">>],
     task_updated |->
        [icon |-> "cycle", color |-> "#2196F3",
         title_template |-> <<"Task Updated">>,
         message_template |-> <<"Task has been updated: ", "{details}">>],
     issue_reported |->
        [icon |-> "warning", color |-> "#FF9800",
         title_template |-> <<"New Quality Issue">>,
         message_template |-> <<"A new quality issue has been reported: ", "{details}">>],
     issue_resolved |->
        [icon |-> "check", color |-> "#4CAF50",
         title_template |-> <<"Quality Issue Resolved">>,
         message_template |-> <<"A quality issue has been resolved: ", "{details}">>],
     stage_completed |->
        [icon |-> "flag", color |-> "#4CAF50",
         title_template |-> <<"Production Stage Completed">>,
         message_template |-> <<"Production stage has been completed: ", "{details}">>],
     system |->
        [icon |-> "bell", color |-> "#607D8B",
         title_template |-> <<"System Notification">>,
         message_template |-> <<"{details}">>]]

\* TypeInfo with the 'system' entry of the registry as the default.
TypeInfoSystemDefault(notification_type) ==
    IF notification_type \in DOMAIN NOTIFICATION_TYPES
    THEN NOTIFICATION_TYPES[notification_type]
    ELSE NOTIFICATION_TYPES["system"]

\* NOTIFICATION_TYPES.get(notification_type, default) of create_notification.
TypeInfo(notification_type) ==
    IF notification_type \in DOMAIN NOTIFICATION_TYPES
    THEN NOTIFICATION_TYPES[notification_type]
    ELSE [icon |-> "bell", color |-> "#607D8B",
          title_template |-> <<"Notification">>,
          message_template |-> <<"{details}">>]

\* message_template.format(details=details or ''): every replacement field
\* becomes the details text, None and '' both rendering as ''.
Format(template, details) ==
    [i \in DOMAIN template |->
        IF template[i] = "{details}"
        THEN (IF details = PyNone THEN "" ELSE details)
        ELSE template[i]]

(* ------------------------------------------------------------------ *)
(* Database helpers (utils/data_models.py)                            *)
(* ------------------------------------------------------------------ *)

\* The tables an operation reads and writes.
Db == [notifications |-> notifications, next_id |-> next_id, audit_log |-> audit_log]

\* log_audit with INSERT OR REPLACE on a table of one row: the new entry
\* takes the place of the log.
LogAuditOverwrites(db, user_id, action, entity_type, entity_id, env) ==
    IF user_id = NULL \/ entity_id = NULL \/ ~env.audit_ok
    THEN [ok |-> FALSE, db |-> db]
    ELSE [ok |-> TRUE,
          db |-> [db EXCEPT !.audit_log =
                    <<[user_id |-> user_id, action |-> action,
                       entity_type |-> entity_type, entity_id |-> entity_id,
                       timestamp |-> env.now]>>]]

\* log_audit: INSERT INTO audit_log.  user_id and entity_id are NOT NULL
\* columns, so a None in either raises IntegrityError; any other rejection
\* by the store raises as well.  ok = FALSE stands for the exception.
log_audit(db, user_id, action, entity_type, entity_id, env) ==
    IF user_id = NULL \/ entity_id = NULL \/ ~env.audit_ok
    THEN [ok |-> FALSE, db |-> db]
    ELSE [ok |-> TRUE,
          db |-> [db EXCEPT !.audit_log =
                    Append(@, [user_id |-> user_id, action |-> action,
                               entity_type |-> entity_type, entity_id |-> entity_id,
                               timestamp |-> env.now])]]

(* ------------------------------------------------------------------ *)
(* Sessions and permissions (utils/auth.py)                           *)
(* ------------------------------------------------------------------ *)

\* The permission names of the PERMISSIONS table.
Permission ==
    {"view_dashboard", "view_projects", "view_issues", "create_issues",
     "edit_issues", "close_issues", "view_tasks", "create_tasks", "edit_tasks",
     "complete_tasks", "view_reports", "manage_users", "manage_settings",
     "update_production", "perform_inspections", "verify_resolutions"}

\* PERMISSIONS: for every role a dict that gives each permission True or
\* False; written here by the permissions that are True.
PERMISSIONS ==
    [operator |->
        [p \in Permission |->
            p \in {"view_dashboard", "view_projects", "view_issues",
                   "create_issues", "view_tasks", "complete_tasks",
                   "update_production"}],
     inspector |->
        [p \in Permission |->
            p \notin {"close_issues", "manage_users", "manage_settings",
                      "update_production"}],
     supervisor |->
        [p \in Permission |-> p \notin {"manage_users", "manage_settings"}],
     manager |-> [p \in Permission |-> TRUE],
     admin |-> [p \in Permission |-> TRUE]]

\* The empty dict {}.
EmptyDict == [p \in {} |-> FALSE]

\* dict.get(key, default).
DictGet(d, key, default) == IF key \in DOMAIN d THEN d[key] ELSE default

\* user['role'].lower() on the role names of the model.
LowerRole(role) ==
    CASE role = "Manager" -> "manager"
      [] role = "Admin" -> "admin"
      [] OTHER -> role

\* st.session_state of a browser session that has not logged in: none of
\* the keys is there.  user_data is the user_id of the logged-in user; NULL
\* stands for None and for a missing key alike, which every read of the key
\* treats the same way.  permissions is absent, None or a dict.
NoSession ==
    [authenticated |-> FALSE, user_data |-> NULL,
     permissions |-> [kind |-> "absent", items |-> EmptyDict],
     session_expiry |-> Absent]

\* The session login leaves for the users row u at time t: the flag, the
\* user data, the role's permission dict ({} for a role PERMISSIONS does not
\* know) and an expiry eight hours ahead.
LoginSession(tbl, sess, u, t) ==
    [authenticated |-> TRUE, user_data |-> u,
     permissions |-> [kind |-> "dict",
                      items |-> DictGet(PERMISSIONS, LowerRole(tbl[u]), EmptyDict)],
     session_expiry |-> t + 8]

\* logout: the audit row is written first, for a session that holds user
\* data, and outside any try; then the four keys are reset and stay in the
\* session with the value False or None.  ok = FALSE stands for the exception
\* of log_audit, which leaves the session as it was.
logout(db, sess, env) ==
    LET logged == IF sess.user_data # NULL
                  THEN log_audit(db, sess.user_data, "logout", "user",
                                 sess.user_data, env)
                  ELSE [ok |-> TRUE, db |-> db]
    IN  IF logged.ok
        THEN [ok |-> TRUE, db |-> logged.db,
              sess |-> [authenticated |-> FALSE, user_data |-> NULL,
                        permissions |-> [kind |-> "None", items |-> EmptyDict],
                        session_expiry |-> NULL]]
        ELSE [ok |-> FALSE, db |-> db, sess |-> sess]

\* is_authenticated at time t: False without the flag; with a
\* session_expiry key, a time after the expiry logs the session out and
\* gives False, any other time moves the expiry to t + 8 hours.  Comparing
\* the time with an expiry of None raises TypeError.
is_authenticated(db, sess, t, env) ==
    IF ~sess.authenticated
    THEN [ret |-> PyFalse, sess |-> sess, db |-> db]
    ELSE IF sess.session_expiry = Absent
    THEN [ret |-> PyTrue, sess |-> sess, db |-> db]
    ELSE IF sess.session_expiry = NULL
    THEN [ret |-> Raised, sess |-> sess, db |-> db]
    ELSE IF t > sess.session_expiry
    THEN LET r == logout(db, sess, env)
         IN  [ret |-> IF r.ok THEN PyFalse ELSE Raised, sess |-> r.sess, db |-> r.db]
    ELSE [ret |-> PyTrue, sess |-> [sess EXCEPT !.session_expiry = t + 8], db |-> db]

\* get_current_user at time t: the user data of a session that
\* is_authenticated accepts, else None.
get_current_user_at(db, sess, t, env) ==
    LET a == is_authenticated(db, sess, t, env)
    IN  [ret |-> IF a.ret = PyTrue THEN a.sess.user_data ELSE NULL,
         raised |-> a.ret = Raised, sess |-> a.sess, db |-> a.db]

\* has_permission(permission) at time t: False for a session that
\* is_authenticated rejects or that has no permissions key, else
\* permissions.get(permission, False); None has no get.
has_permission(db, sess, permission, t, env) ==
    LET a == is_authenticated(db, sess, t, env)
    IN  [ret |-> IF a.ret # PyTrue THEN a.ret
                 ELSE IF a.sess.permissions.kind = "absent" THEN PyFalse
                 ELSE IF a.sess.permissions.kind = "None" THEN Raised
                 ELSE PyBool(DictGet(a.sess.permissions.items, permission, FALSE)),
         sess |-> a.sess, db |-> a.db]

\* main() of app.py, as far as the session goes: the expiry check at its
\* top (a live session gets a day, an expired one loses the flag and the
\* user data; an expiry of None raises TypeError, which main's own except
\* reports), then is_authenticated, and get_current_user for a session that
\* is let in.
main(db, sess, t, env) ==
    IF sess.session_expiry = NULL
    THEN [ret |-> Raised, user |-> NULL, sess |-> sess, db |-> db]
    ELSE LET checked == IF sess.session_expiry = Absent THEN sess
                        ELSE IF t < sess.session_expiry
                        THEN [sess EXCEPT !.session_expiry = t + 24]
                        ELSE [sess EXCEPT !.authenticated = FALSE,
                                          !.user_data = NULL]
             a == is_authenticated(db, checked, t, env)
             u == get_current_user_at(a.db, a.sess, t, env)
         IN  IF a.ret = PyTrue
             THEN [ret |-> IF u.raised THEN Raised ELSE PyTrue, user |-> u.ret,
                   sess |-> u.sess, db |-> u.db]
             ELSE [ret |-> a.ret, user |-> NULL, sess |-> a.sess, db |-> a.db]

\* get_current_user of a session inside its time to live, where
\* is_authenticated is the flag: the session's user data when
\* authenticated, else None.
get_current_user(sess) ==
    IF sess.authenticated /\ sess.user_data # NULL THEN sess.user_data ELSE NULL

(* ------------------------------------------------------------------ *)
(* Notification store and fan-out (utils/notifications.py)            *)
(* ------------------------------------------------------------------ *)

\* create_notification with the INSERT and the audit INSERT in one
\* transaction: a failed audit write takes the notification with it.
CreateInOneTransaction(db, sess, a, env) ==
    IF ~env.store_ok \/ a.user_id \in env.rejected
    THEN [db |-> db, ret |-> PyFalse, committed |-> FALSE, rowcount |-> 0]
    ELSE LET logged == log_audit(db, get_current_user(sess), "create",
                                 "notification", NULL, env)
         IN  [db |-> IF logged.ok
                     THEN [logged.db EXCEPT !.next_id = @ + 1]
                     ELSE [db EXCEPT !.next_id = @ + 1],
              ret |-> PyBool(logged.ok), committed |-> TRUE, rowcount |-> 1]

\* create_notification.  The INSERT is committed by execute_update before
\* log_audit runs; log_audit is called with entity_id None, and whatever it
\* raises is caught by the function's own except, which returns False.
create_notification(db, sess, a, env) ==
    LET type_info == TypeInfo(a.notification_type)
        title == type_info.title_template
        message == Format(type_info.message_template, a.details)
        row == [notification_id |-> db.next_id,
                user_id |-> a.user_id,
                notification_type |-> a.notification_type,
                entity_type |-> a.reference_type,
                entity_id |-> a.reference_id,
                title |-> title,
                message |-> message,
                created_at |-> env.now,
                read_at |-> NULL]
    IN  IF ~env.store_ok \/ a.user_id \in env.rejected
        THEN [db |-> db, ret |-> PyFalse, committed |-> FALSE, rowcount |-> 0]
        ELSE LET db1 == [db EXCEPT !.notifications = Append(@, row),
                                   !.next_id = @ + 1]
                 creator_id == get_current_user(sess)
                 logged == log_audit(db1, creator_id, "create", "notification", NULL, env)
             IN  [db |-> logged.db,
                  ret |-> PyBool(logged.ok),
                  committed |-> TRUE,
                  rowcount |-> 1]

RECURSIVE NotifyLoop(_, _, _, _, _, _, _)

\* NotifyLoop with a `break` at the first create that returns False.
NotifyLoopBreaks(db, sess, user_ids, a, env, i, acc) ==
    IF i > Len(user_ids) THEN [acc EXCEPT !.db = db]
    ELSE LET r == create_notification(db, sess, [a EXCEPT !.user_id = user_ids[i]], env)
             acc1 == [acc EXCEPT !.ret = IF r.ret = PyTrue THEN @ ELSE PyFalse,
                                 !.attempted = Append(@, user_ids[i]),
                                 !.created = IF r.committed THEN Append(@, user_ids[i]) ELSE @,
                                 !.rowcount = @ + r.rowcount]
         IN  IF r.ret = PyTrue
             THEN NotifyLoop(r.db, sess, user_ids, a, env, i + 1, acc1)
             ELSE [acc1 EXCEPT !.db = r.db]

\* NotifyLoop without `success = False`: the results of the creates are
\* dropped.
NotifyLoopDropsResult(db, sess, user_ids, a, env, i, acc) ==
    IF i > Len(user_ids) THEN [acc EXCEPT !.db = db]
    ELSE LET r == create_notification(db, sess, [a EXCEPT !.user_id = user_ids[i]], env)
         IN  NotifyLoop(r.db, sess, user_ids, a, env, i + 1,
                        [acc EXCEPT !.attempted = Append(@, user_ids[i]),
                                    !.created = IF r.committed THEN Append(@, user_ids[i]) ELSE @,
                                    !.rowcount = @ + r.rowcount])

\* The loop of notify_multiple_users, from recipient i on: every recipient
\* is tried, success turns False at the first create that returns False.
NotifyLoop(db, sess, user_ids, a, env, i, acc) ==
    IF i > Len(user_ids) THEN [acc EXCEPT !.db = db]
    ELSE LET r == create_notification(db, sess, [a EXCEPT !.user_id = user_ids[i]], env)
         IN  NotifyLoop(r.db, sess, user_ids, a, env, i + 1,
                        [acc EXCEPT !.ret = IF r.ret = PyTrue THEN @ ELSE PyFalse,
                                    !.attempted = Append(@, user_ids[i]),
                                    !.created = IF r.committed THEN Append(@, user_ids[i]) ELSE @,
                                    !.rowcount = @ + r.rowcount])

\* notify_multiple_users.
notify_multiple_users(db, sess, user_ids, a, env) ==
    NotifyLoop(db, sess, user_ids, a, env, 1,
               [db |-> db, ret |-> PyTrue, attempted |-> <<>>, created |-> <<>>,
                rowcount |-> 0])

\* SELECT user_id FROM users, without `WHERE role = ?`.
UsersWithAnyRole(tbl, role, i) ==
    [k \in 1..(Cardinality(DOMAIN tbl) - i + 1) |-> k + i - 1]

\* SELECT user_id FROM users WHERE role = ?, in rowid order.
RECURSIVE UsersWithRole(_, _, _)
UsersWithRole(tbl, role, i) ==
    IF i > Cardinality(DOMAIN tbl) THEN <<>>
    ELSE (IF tbl[i] = role THEN <<i>> ELSE <<>>) \o UsersWithRole(tbl, role, i + 1)

\* notify_by_role: an empty result of the role query returns False.
notify_by_role(db, sess, tbl, role, a, env) ==
    LET user_ids == UsersWithRole(tbl, role, 1)
    IN  IF ~env.store_ok
        THEN [db |-> db, ret |-> PyFalse, attempted |-> <<>>, created |-> <<>>,
              rowcount |-> 0]
        ELSE IF user_ids = <<>>
        THEN [db |-> db, ret |-> PyFalse, attempted |-> <<>>, created |-> <<>>,
              rowcount |-> 0]
        ELSE notify_multiple_users(db, sess, user_ids, a, env)

\* register_user: refused when the username or the email is taken
\* (existing_user is the row that query finds, NULL for none); otherwise one
\* INSERT INTO users, which gets the next user_id.
register_user(tbl, role, existing_user, env) ==
    IF ~env.store_ok \/ existing_user # NULL
    THEN [tbl |-> tbl, ret |-> PyFalse]
    ELSE [tbl |-> tbl @@ ((Cardinality(DOMAIN tbl) + 1) :> role), ret |-> PyTrue]

(* ------------------------------------------------------------------ *)
(* Read-state tracker and deletion (utils/notifications.py)           *)
(* ------------------------------------------------------------------ *)

\* mark_notification_read with `SET read_at = ..., created_at = ...`.
MarkReadTouchesCreatedAt(db, sess, notification_id, env) ==
    LET Hit(n) == n.notification_id = notification_id
        updated == [i \in DOMAIN db.notifications |->
                      IF Hit(db.notifications[i])
                      THEN [db.notifications[i] EXCEPT !.read_at = env.now,
                                                       !.created_at = env.now]
                      ELSE db.notifications[i]]
    IN  IF ~env.store_ok
        THEN [db |-> db, ret |-> PyFalse, committed |-> FALSE, rowcount |-> 0]
        ELSE [db |-> [db EXCEPT !.notifications = updated],
              ret |-> PyTrue,
              committed |-> TRUE,
              rowcount |-> Len(SelectSeq(db.notifications, Hit))]

\* mark_notification_read: UPDATE ... SET read_at = CURRENT_TIMESTAMP
\* WHERE notification_id = ?; the audit row is written only for a logged-in
\* caller.
mark_notification_read(db, sess, notification_id, env) ==
    LET Hit(n) == n.notification_id = notification_id
        updated == [i \in DOMAIN db.notifications |->
                      IF Hit(db.notifications[i])
                      THEN [db.notifications[i] EXCEPT !.read_at = env.now]
                      ELSE db.notifications[i]]
        db1 == [db EXCEPT !.notifications = updated]
        current_user == get_current_user(sess)
        logged == IF current_user # NULL
                  THEN log_audit(db1, current_user, "read", "notification", notification_id, env)
                  ELSE [ok |-> TRUE, db |-> db1]
    IN  IF ~env.store_ok
        THEN [db |-> db, ret |-> PyFalse, committed |-> FALSE, rowcount |-> 0]
        ELSE [db |-> logged.db,
              ret |-> PyBool(logged.ok),
              committed |-> TRUE,
              rowcount |-> Len(SelectSeq(db.notifications, Hit))]

\* MarkAllMatches without `AND read_at IS NULL`.
MarkAllMatchesAnyState(n, user_id) == n.user_id = user_id

\* MarkAllMatches without `user_id = ?`.
MarkAllMatchesAnyUser(n, user_id) == n.read_at = NULL

\* The UPDATE of mark_all_notifications_read:
\* SET read_at = CURRENT_TIMESTAMP WHERE user_id = ? AND read_at IS NULL.
MarkAllMatches(n, user_id) == n.user_id = user_id /\ n.read_at = NULL

\* MarkAllUpdate that toggles: the user's unread rows become read and the
\* user's read rows unread.
MarkAllUpdateToggles(table, user_id, t) ==
    [i \in DOMAIN table |->
        IF table[i].user_id = user_id
        THEN [table[i] EXCEPT !.read_at = IF @ = NULL THEN t ELSE NULL]
        ELSE table[i]]

\* MarkAllUpdate that stops after the first row it matches.
MarkAllUpdateFirstRow(table, user_id, t) ==
    [i \in DOMAIN table |->
        IF /\ MarkAllMatches(table[i], user_id)
           /\ \A j \in 1..(i - 1) : ~MarkAllMatches(table[j], user_id)
        THEN [table[i] EXCEPT !.read_at = t]
        ELSE table[i]]

\* The UPDATE statement of mark_all_notifications_read, run at time t: one
\* statement in one transaction, whose WHERE clause is evaluated on the
\* table as it is when the statement runs.
MarkAllUpdate(table, user_id, t) ==
    [i \in DOMAIN table |->
        IF MarkAllMatches(table[i], user_id)
        THEN [table[i] EXCEPT !.read_at = t]
        ELSE table[i]]

\* mark_all_notifications_read: the bulk UPDATE, then log_audit with
\* entity_id None.
mark_all_notifications_read(db, user_id, env) ==
    LET Hit(n) == MarkAllMatches(n, user_id)
        updated == MarkAllUpdate(db.notifications, user_id, env.now)
        db1 == [db EXCEPT !.notifications = updated]
        logged == log_audit(db1, user_id, "read_all", "notification", NULL, env)
    IN  IF ~env.store_ok
        THEN [db |-> db, ret |-> PyFalse, committed |-> FALSE, rowcount |-> 0]
        ELSE [db |-> logged.db,
              ret |-> PyBool(logged.ok),
              committed |-> TRUE,
              rowcount |-> Len(SelectSeq(db.notifications, Hit))]

\* delete_notification: DELETE ... WHERE notification_id = ?.  return True
\* sits inside `if current_user:`, so the function falls off its end and
\* returns None for a caller that is not logged in.
delete_notification(db, sess, notification_id, env) ==
    LET Hit(n) == n.notification_id = notification_id
        Keep(n) == ~Hit(n)
        db1 == [db EXCEPT !.notifications = SelectSeq(@, Keep)]
        current_user == get_current_user(sess)
        logged == IF current_user # NULL
                  THEN log_audit(db1, current_user, "delete", "notification", notification_id, env)
                  ELSE [ok |-> TRUE, db |-> db1]
    IN  IF ~env.store_ok
        THEN [db |-> db, ret |-> PyFalse, committed |-> FALSE, rowcount |-> 0]
        ELSE [db |-> logged.db,
              ret |-> IF current_user = NULL THEN [type |-> "NoneType", value |-> 0]
                      ELSE PyBool(logged.ok),
              committed |-> TRUE,
              rowcount |-> Len(SelectSeq(db.notifications, Hit))]

\* DeleteReadMatches without `user_id = ?`.
DeleteReadMatchesAnyUser(n, user_id) == n.read_at # NULL

\* DeleteReadMatches without `AND read_at IS NOT NULL`.
DeleteReadMatchesAnyState(n, user_id) == n.user_id = user_id

\* The DELETE of delete_all_read_notifications:
\* WHERE user_id = ? AND read_at IS NOT NULL.
DeleteReadMatches(n, user_id) == n.user_id = user_id /\ n.read_at # NULL

\* delete_all_read_notifications: the bulk DELETE, then log_audit with
\* entity_id None.
delete_all_read_notifications(db, user_id, env) ==
    LET Hit(n) == DeleteReadMatches(n, user_id)
        Keep(n) == ~Hit(n)
        db1 == [db EXCEPT !.notifications = SelectSeq(@, Keep)]
        logged == log_audit(db1, user_id, "delete_read", "notification", NULL, env)
    IN  IF ~env.store_ok
        THEN [db |-> db, ret |-> PyFalse, committed |-> FALSE, rowcount |-> 0]
        ELSE [db |-> logged.db,
              ret |-> PyBool(logged.ok),
              committed |-> TRUE,
              rowcount |-> Len(SelectSeq(db.notifications, Hit))]

(* ------------------------------------------------------------------ *)
(* Queries (utils/notifications.py)                                   *)
(* ------------------------------------------------------------------ *)

\* ORDER BY created_at DESC: rows of the newest timestamp first, rows of
\* equal timestamp in rowid order.
RECURSIVE OrderByCreatedDesc(_, _)
OrderByCreatedDesc(rows, t) ==
    IF t < 0 THEN <<>>
    ELSE LET At(n) == n.created_at = t
         IN  SelectSeq(rows, At) \o OrderByCreatedDesc(rows, t - 1)

\* The SELECT of get_user_notifications: the WHERE clause built from
\* user_id and include_read, the column list with its renames, ORDER BY
\* created_at DESC and LIMIT.
SelectUserNotifications(table, user_id, limit, include_read) ==
    LET Where(n) == n.user_id = user_id /\ (include_read \/ n.read_at = NULL)
        matched == SelectSeq(table, Where)
        ordered == OrderByCreatedDesc(matched, MaxTime + 1)
        limited == SubSeq(ordered, 1, IF Len(ordered) < limit THEN Len(ordered) ELSE limit)
    IN  [i \in DOMAIN limited |->
            [notification_id |-> limited[i].notification_id,
             type |-> limited[i].notification_type,
             reference_type |-> limited[i].entity_type,
             reference_id |-> limited[i].entity_id,
             title |-> limited[i].title,
             message |-> limited[i].message,
             created_at |-> limited[i].created_at,
             read_at |-> limited[i].read_at]]

\* get_user_notifications.  The rows come from a connection whose
\* row_factory is sqlite3.Row, which supports no item assignment: the
\* first `notification['icon'] = ...` of the enhancement loop raises
\* TypeError, the function's except catches it and returns [].  With no
\* row the loop body never runs and the (empty) result is returned.
get_user_notifications(table, user_id, limit, include_read) ==
    LET rows == SelectUserNotifications(table, user_id, limit, include_read)
    IN  IF rows # <<>> THEN <<>> ELSE rows

\* get_notifications, the presentation adapter: the rows of
\* get_user_notifications, each with seen (read_at is not None) and id
\* (notification_id) added.  The display strings time and timestamp are
\* left out.
get_notifications(table, user_id, max_count, include_seen) ==
    LET rows == get_user_notifications(table, user_id, max_count, include_seen)
    IN  [i \in DOMAIN rows |->
            [notification_id |-> rows[i].notification_id,
             type |-> rows[i].type,
             reference_type |-> rows[i].reference_type,
             reference_id |-> rows[i].reference_id,
             title |-> rows[i].title,
             message |-> rows[i].message,
             created_at |-> rows[i].created_at,
             read_at |-> rows[i].read_at,
             seen |-> PyBool(rows[i].read_at # NULL),
             id |-> rows[i].notification_id]]

\* get_unread_notification_count:
\* SELECT COUNT(*) ... WHERE user_id = ? AND read_at IS NULL.
get_unread_notification_count(table, user_id) ==
    LET Where(n) == n.user_id = user_id /\ n.read_at = NULL
    IN  Len(SelectSeq(table, Where))

(* ------------------------------------------------------------------ *)
(* Inputs                                                             *)
(* ------------------------------------------------------------------ *)

\* The arguments of a create call other than the recipient.
NoArgs ==
    [user_id |-> NULL, notification_type |-> "", reference_type |-> "",
     reference_id |-> "", details |-> PyNone, priority |-> "normal"]

TaskAssignedT1 ==
    [NoArgs EXCEPT !.notification_type = "task_assigned", !.reference_type = "task",
                   !.reference_id = "T1", !.details = "x"]

IssueReportedI9 ==
    [NoArgs EXCEPT !.notification_type = "issue_reported", !.reference_type = "issue",
                   !.reference_id = "I9", !.details = "Critical crack",
                   !.priority = "urgent"]

IssueResolvedI9 ==
    [NoArgs EXCEPT !.notification_type = "issue_resolved", !.reference_type = "issue",
                   !.reference_id = "I9", !.details = "resolved"]

\* A type that is not a key of NOTIFICATION_TYPES, with and without details.
CustomEvent ==
    [NoArgs EXCEPT !.notification_type = "custom_event", !.reference_type = "module",
                   !.reference_id = "M7", !.details = "Line 3 stopped"]

CustomEventNoDetails == [CustomEvent EXCEPT !.details = PyNone]

RecipientLists == {<<>>, <<1, 2, 3>>, <<3, 1>>}

Roles == {"manager", "supervisor"}

Range(seq) == {seq[i] : i \in DOMAIN seq}

\* The clock at the time of a call that reads CURRENT_TIMESTAMP: time may
\* have passed since the last such call.
Clock == {t \in {now, now + 1} : t <= MaxTime}

\* The environments of a call made at time t: whether the store accepts
\* the primary statement, the recipients whose INSERT it rejects, and
\* whether it accepts the audit INSERT (audits says whether the call can
\* reach an audit INSERT that the schema does not already refuse).
Envs(t, recipients, audits) ==
    [now : {t}, store_ok : BOOLEAN, rejected : SUBSET recipients,
     audit_ok : IF audits THEN BOOLEAN ELSE {TRUE}]

\* The record of a call, before its fields are filled in.
NoCall ==
    [op |-> "none", user_id |-> NULL, notification_id |-> NULL, role |-> "",
     user_ids |-> <<>>, args |-> NoArgs, rejected |-> {},
     ret |-> PyFalse, committed |-> FALSE, rowcount |-> 0,
     attempted |-> <<>>, created |-> <<>>, first_id |-> NULL, again |-> FALSE,
     saved |-> FALSE, shown |-> "", record_id |-> "",
     notify |-> [type |-> "not called", value |-> 0], listed |-> <<>>,
     days_remaining |-> 0]

(* ------------------------------------------------------------------ *)
(* Domain records (utils/database.py)                                 *)
(* ------------------------------------------------------------------ *)

\* The data files the application requires at start (app.py,
\* check_data_files): no issue and no task yet, one project of one module.
\* Rows keep the columns the page handlers read or write afterwards.
SeedFiles ==
    [issues |-> <<>>,
     tasks |-> <<>>,
     modules |-> <<[module_id |-> "M1", module_name |-> "Wall A",
                    project_id |-> "P1", status |-> "In Progress",
                    actual_completion |-> ""]>>,
     projects |-> <<[project_id |-> "P1", project_name |-> "Tower",
                     total_modules |-> 1, completed_modules |-> 0,
                     status |-> "In Progress"]>>]

\* f"{n:03d}" for the numbers of the model.
Digits3(n) == <<"001", "002", "003", "004", "005", "006", "007", "008", "009">>[n]

\* int(last_id[1:]) for an id made of a one-letter prefix and three digits.
NumPart(prefix, id) == CHOOSE n \in 1..9 : id = prefix \o Digits3(n)

\* str(b) for a Python bool.
StrBool(b) == IF b THEN "True" ELSE "False"

\* idx[0] of df.index[df[column] == value]: the first matching row, 0 for
\* an empty index.
FirstIndex(df, column, value) ==
    IF \E i \in DOMAIN df : df[i][column] = value
    THEN CHOOSE i \in DOMAIN df :
           df[i][column] = value /\ \A j \in 1..(i - 1) : df[j][column] # value
    ELSE 0

\* get_module: the first row of modules.csv with the id, as a dict, or None.
get_module(files, module_id) ==
    LET i == FirstIndex(files.modules, "module_id", module_id)
    IN  IF i = 0 THEN [found |-> FALSE] ELSE [found |-> TRUE, row |-> files.modules[i]]

\* get_project: the first row of projects.csv with the id, or None.
get_project(files, project_id) ==
    LET i == FirstIndex(files.projects, "project_id", project_id)
    IN  IF i = 0 THEN [found |-> FALSE] ELSE [found |-> TRUE, row |-> files.projects[i]]

\* create_issue: the new id is the last row's number plus one ('I001' for
\* an empty file), the row is appended and the whole file saved.  The
\* result is `save_data(...) and new_id`: the id, or False when the file
\* could not be written (save_ok false).
create_issue(files, module_id, reported_by, category, severity, description, save_ok) ==
    LET issues_df == files.issues
        new_id == IF issues_df = <<>> THEN "I001"
                  ELSE "I" \o Digits3(NumPart("I", issues_df[Len(issues_df)].issue_id) + 1)
        new_issue == [issue_id |-> new_id, module_id |-> module_id,
                      reported_by |-> reported_by, category |-> category,
                      severity |-> severity, description |-> description,
                      status |-> "Open", resolved_by |-> NULL]
    IN  IF save_ok
        THEN [files |-> [files EXCEPT !.issues = Append(@, new_issue)],
              truthy |-> TRUE, new_id |-> new_id]
        ELSE [files |-> files, truthy |-> FALSE, new_id |-> ""]

\* update_issue_status: False for an empty file or an unknown id; else the
\* first row with the id gets the status (and resolved_by when the status
\* is Resolved and a resolver is given) and the file is saved.
update_issue_status(files, issue_id, status, resolved_by, save_ok) ==
    LET i == FirstIndex(files.issues, "issue_id", issue_id)
        row == [files.issues[i] EXCEPT
                  !.status = status,
                  !.resolved_by = IF status = "Resolved" /\ resolved_by # NULL
                                  THEN resolved_by ELSE @]
    IN  IF files.issues = <<>> \/ i = 0 \/ ~save_ok
        THEN [files |-> files, ok |-> FALSE]
        ELSE [files |-> [files EXCEPT !.issues[i] = row], ok |-> TRUE]

\* create_task: the id is built as in create_issue, the row is appended,
\* and the result is what save_data returns: True or False, not the id.
create_task(files, issue_id, module_id, assigned_to, assigned_by, due_date, description, priority, save_ok) ==
    LET tasks_df == files.tasks
        new_id == IF tasks_df = <<>> THEN "T001"
                  ELSE "T" \o Digits3(NumPart("T", tasks_df[Len(tasks_df)].task_id) + 1)
        new_task == [task_id |-> new_id, issue_id |-> issue_id, module_id |-> module_id,
                     assigned_to |-> assigned_to, assigned_by |-> assigned_by,
                     due_date |-> due_date, description |-> description,
                     priority |-> priority, status |-> "Assigned"]
    IN  IF save_ok
        THEN [files |-> [files EXCEPT !.tasks = Append(@, new_task)], ok |-> TRUE]
        ELSE [files |-> files, ok |-> FALSE]

\* update_module_status.
update_module_status(files, module_id, status, completion_date, save_ok) ==
    LET i == FirstIndex(files.modules, "module_id", module_id)
        row == [files.modules[i] EXCEPT
                  !.status = status,
                  !.actual_completion = IF completion_date # "" /\ status = "Completed"
                                        THEN completion_date ELSE @]
    IN  IF files.modules = <<>> \/ i = 0 \/ ~save_ok
        THEN [files |-> files, ok |-> FALSE]
        ELSE [files |-> [files EXCEPT !.modules[i] = row], ok |-> TRUE]

\* update_project_progress: the count is stored, and the project becomes
\* Completed when the count reaches total_modules.
update_project_progress(files, project_id, completed_modules, save_ok) ==
    LET i == FirstIndex(files.projects, "project_id", project_id)
        row == [files.projects[i] EXCEPT
                  !.completed_modules = completed_modules,
                  !.status = IF completed_modules >= files.projects[i].total_modules
                             THEN "Completed" ELSE @]
    IN  IF files.projects = <<>> \/ i = 0 \/ ~save_ok
        THEN [files |-> files, ok |-> FALSE]
        ELSE [files |-> [files EXCEPT !.projects[i] = row], ok |-> TRUE]

(* ------------------------------------------------------------------ *)
(* Event wrappers (utils/notifications.py)                            *)
(* ------------------------------------------------------------------ *)

\* severity.lower() and severity.capitalize() for the options of the
\* severity select box.
Lower(severity) ==
    CASE severity = "Low" -> "low" [] severity = "Medium" -> "medium"
      [] severity = "High" -> "high" [] severity = "Critical" -> "critical"

Capitalize(severity) ==
    CASE Lower(severity) = "low" -> "Low" [] Lower(severity) = "medium" -> "Medium"
      [] Lower(severity) = "high" -> "High" [] Lower(severity) = "critical" -> "Critical"

\* module.get('module_name', 'Unknown module') if module else 'Unknown module'.
ModuleName(files, module_id) ==
    LET module == get_module(files, module_id)
    IN  IF module.found THEN module.row.module_name ELSE "Unknown module"

\* str(n) for the day counts of the model.
StrDays(n) == <<"0", "1", "2", "3", "4", "5", "6", "7">>[n + 1]

\* notify_task_due_soon: the assignee is told, with priority 'urgent' at one
\* day or less and 'high' otherwise.
notify_task_due_soon(db, sess, task_id, task_description, assigned_to_id, days_remaining, env) ==
    LET priority == IF days_remaining <= 1 THEN "urgent" ELSE "high"
    IN  create_notification(db, sess,
            [NoArgs EXCEPT !.user_id = assigned_to_id,
                           !.notification_type = "task_updated",
                           !.reference_type = "task",
                           !.reference_id = task_id,
                           !.details = "Task '" \o task_description \o "' is due in "
                                         \o StrDays(days_remaining) \o " day"
                                         \o (IF days_remaining # 1 THEN "s" ELSE "")
                                         \o "!",
                           !.priority = priority],
            env)

\* notify_new_issue: managers are told about the issue.
notify_new_issue(files, db, sess, tbl, issue_id, module_id, severity, description, reporter_id, env) ==
    LET module_name == ModuleName(files, module_id)
        priority == IF Lower(severity) = "critical" THEN "urgent"
                    ELSE IF Lower(severity) = "major" THEN "high" ELSE "normal"
    IN  notify_by_role(db, sess, tbl, "manager",
            [NoArgs EXCEPT !.notification_type = "issue_reported",
                           !.reference_type = "issue",
                           !.reference_id = issue_id,
                           !.details = Capitalize(severity) \o " issue on " \o module_name
                                         \o ": " \o description,
                           !.priority = priority],
            env)

\* notify_issue_resolved.
notify_issue_resolved(files, db, sess, tbl, issue_id, module_id, resolver_id, env) ==
    notify_by_role(db, sess, tbl, "manager",
        [NoArgs EXCEPT !.notification_type = "issue_resolved",
                       !.reference_type = "issue",
                       !.reference_id = issue_id,
                       !.details = "Quality issue on " \o ModuleName(files, module_id)
                                     \o " has been resolved."],
        env)

\* notify_task_assigned.
notify_task_assigned(db, sess, task_id, task_description, assigned_to_id, due_date, env) ==
    create_notification(db, sess,
        [NoArgs EXCEPT !.user_id = assigned_to_id,
                       !.notification_type = "task_assigned",
                       !.reference_type = "task",
                       !.reference_id = task_id,
                       !.details = "Task: " \o task_description \o ". Due: " \o due_date],
        env)

\* notify_project_complete.
notify_project_complete(db, sess, tbl, project_id, project_name, env) ==
    notify_by_role(db, sess, tbl, "manager",
        [NoArgs EXCEPT !.notification_type = "stage_completed",
                       !.reference_type = "project",
                       !.reference_id = project_id,
                       !.details = "Project '" \o project_name
                                     \o "' has been marked as complete."],
        env)

(* ------------------------------------------------------------------ *)
(* Page handlers (pages/issues.py, pages/tasks.py, pages/projects.py) *)
(* ------------------------------------------------------------------ *)

\* The notify field of a handler that called no notify_* wrapper.
NotCalled == [type |-> "not called", value |-> 0]

\* report_issue_form with the issue reported as failed when notify_new_issue
\* returns False.
ReportIssueNeedsNotify(files, db, sess, tbl, module_id, category, severity, description, save_ok, env) ==
    LET user_data == get_current_user(sess)
        created == create_issue(files, module_id, user_data, category, severity,
                                description, save_ok)
        notified == notify_new_issue(created.files, db, sess, tbl, created.new_id,
                                     module_id, severity, description, user_data, env)
    IN  IF created.truthy
        THEN [files |-> created.files, db |-> notified.db, saved |-> TRUE,
              notify |-> notified.ret,
              shown |-> IF notified.ret = PyTrue THEN "success" ELSE "error",
              record_id |-> created.new_id]
        ELSE [files |-> files, db |-> db, saved |-> FALSE,
              notify |-> NotCalled, shown |-> "error", record_id |-> ""]

\* report_issue_form, submitted with every field filled in.  shown is the
\* message the handler ends with: st.success or st.error.
report_issue_form(files, db, sess, tbl, module_id, category, severity, description, save_ok, env) ==
    LET user_data == get_current_user(sess)
        created == create_issue(files, module_id, user_data, category, severity,
                                description, save_ok)
        notified == notify_new_issue(created.files, db, sess, tbl, created.new_id,
                                     module_id, severity, description, user_data, env)
    IN  IF created.truthy
        THEN [files |-> created.files, db |-> notified.db, saved |-> TRUE,
              notify |-> notified.ret, shown |-> "success", record_id |-> created.new_id]
        ELSE [files |-> files, db |-> db, saved |-> FALSE,
              notify |-> NotCalled, shown |-> "error", record_id |-> ""]

\* The `Update Status` button of load_issue_details, for an issue of the
\* file.
load_issue_details(files, db, sess, tbl, issue_id, new_status, save_ok, env) ==
    LET user_data == get_current_user(sess)
        issue == files.issues[FirstIndex(files.issues, "issue_id", issue_id)]
        updated == update_issue_status(files, issue_id, new_status, user_data, save_ok)
        notified == notify_issue_resolved(updated.files, db, sess, tbl, issue_id,
                                          issue.module_id, user_data, env)
    IN  IF ~updated.ok
        THEN [files |-> files, db |-> db, saved |-> FALSE,
              notify |-> NotCalled, shown |-> "error", record_id |-> issue_id]
        ELSE IF new_status = "Resolved"
        THEN [files |-> updated.files, db |-> notified.db, saved |-> TRUE,
              notify |-> notified.ret, shown |-> "success", record_id |-> issue_id]
        ELSE [files |-> updated.files, db |-> db, saved |-> TRUE,
              notify |-> NotCalled, shown |-> "success", record_id |-> issue_id]

\* create_new_task, submitted with every field filled in.  The task id
\* handed to notify_task_assigned is "T" + str(task_created), and
\* task_created is the bool that create_task returns.
create_new_task(files, db, sess, issue_id, module_id, assigned_to_id, due_date, description, priority, save_ok, env) ==
    LET user_data == get_current_user(sess)
        task_created == create_task(files, issue_id, module_id, assigned_to_id, user_data,
                                    due_date, description, priority, save_ok)
        notified == notify_task_assigned(db, sess, "T" \o StrBool(task_created.ok),
                                         description, assigned_to_id, due_date, env)
    IN  IF task_created.ok
        THEN [files |-> task_created.files, db |-> notified.db, saved |-> TRUE,
              notify |-> notified.ret, shown |-> "success",
              record_id |-> task_created.files.tasks[Len(task_created.files.tasks)].task_id]
        ELSE [files |-> files, db |-> db, saved |-> FALSE,
              notify |-> NotCalled, shown |-> "error", record_id |-> ""]

\* The `Update Module Status` button of show_project_modules.  A completed
\* module updates the project's progress, and a project that is Completed
\* after that is announced to the managers.
show_project_modules(files, db, sess, tbl, project_id, module_id, new_status, completion_date, modules_ok, projects_ok, env) ==
    LET updated == update_module_status(files, module_id, new_status, completion_date,
                                        modules_ok)
        Done(m) == m.project_id = project_id /\ m.status = "Completed"
        completed_modules == Len(SelectSeq(updated.files.modules, Done))
        progressed == update_project_progress(updated.files, project_id,
                                              completed_modules, projects_ok)
        project == get_project(progressed.files, project_id)
        notified == notify_project_complete(db, sess, tbl, project_id,
                                            project.row.project_name, env)
    IN  IF ~updated.ok
        THEN [files |-> files, db |-> db, saved |-> FALSE,
              notify |-> NotCalled, shown |-> "error", record_id |-> module_id]
        ELSE IF new_status # "Completed"
        THEN [files |-> updated.files, db |-> db, saved |-> TRUE,
              notify |-> NotCalled, shown |-> "success", record_id |-> module_id]
        ELSE IF ~progressed.ok
        THEN [files |-> updated.files, db |-> db, saved |-> TRUE,
              notify |-> NotCalled, shown |-> "warning", record_id |-> module_id]
        ELSE IF project.row.status = "Completed"
        THEN [files |-> progressed.files, db |-> notified.db, saved |-> TRUE,
              notify |-> notified.ret, shown |-> "success", record_id |-> module_id]
        ELSE [files |-> progressed.files, db |-> db, saved |-> TRUE,
              notify |-> NotCalled, shown |-> "success", record_id |-> module_id]

\* update_task_status.  A task that becomes Completed and is linked to an
\* issue resolves that issue through update_issue_status, whose result is
\* dropped; issues.csv is written before tasks.csv.  The completion date
\* column is left out.
update_task_status(files, task_id, status, issues_ok, tasks_ok) ==
    LET i == FirstIndex(files.tasks, "task_id", task_id)
        task == files.tasks[i]
        resolved == IF status = "Completed" /\ task.issue_id # ""
                    THEN update_issue_status(files, task.issue_id, "Resolved",
                                             task.assigned_to, issues_ok).files
                    ELSE files
    IN  IF files.tasks = <<>> \/ i = 0
        THEN [files |-> files, ok |-> FALSE]
        ELSE IF ~tasks_ok
        THEN [files |-> resolved, ok |-> FALSE]
        ELSE [files |-> [resolved EXCEPT !.tasks[i].status = status], ok |-> TRUE]

\* The `Update Status` button of load_task_details: update_task_status and a
\* message; no notification function is called.
load_task_details(files, db, sess, tbl, task_id, new_status, issues_ok, tasks_ok, env) ==
    LET updated == update_task_status(files, task_id, new_status, issues_ok, tasks_ok)
    IN  [files |-> updated.files, db |-> db, saved |-> updated.ok,
         notify |-> NotCalled,
         shown |-> IF updated.ok THEN "success" ELSE "error",
         record_id |-> task_id]

\* create_task_for_issue, the task form of an issue's page: create_task with
\* the issue's id and a message; no notification function is called.
create_task_for_issue(files, db, sess, issue_id, module_id, assigned_to_id, due_date, description, priority, save_ok) ==
    LET user_data == get_current_user(sess)
        task_created == create_task(files, issue_id, module_id, assigned_to_id, user_data,
                                    due_date, description, priority, save_ok)
    IN  [files |-> task_created.files, db |-> db, saved |-> task_created.ok,
         notify |-> NotCalled,
         shown |-> IF task_created.ok THEN "success" ELSE "error",
         record_id |-> issue_id]

(* ------------------------------------------------------------------ *)
(* Concurrent sessions                                                *)
(* ------------------------------------------------------------------ *)

\* Two browser sessions; each call they make opens its own connection
\* (get_db_connection), so their statements interleave one by one.
Sessions == {"A", "B"}

\* A session that is in no call.  df is the dataframe a call of
\* utils/database.py has loaded and not yet saved.
Idle == [pc |-> "idle", op |-> "", args |-> NoArgs, df |-> <<>>]

\* The user a session reports and assigns as.
Acting == [s \in Sessions |-> IF s = "A" THEN 1 ELSE 2]

(* ------------------------------------------------------------------ *)
(* State machine                                                      *)
(* ------------------------------------------------------------------ *)

Init ==
    /\ notifications = <<>>
    /\ next_id = 1
    /\ audit_log = <<>>
    /\ users = SeedUsers
    /\ session = NoSession
    /\ now = 0
    /\ wall = 0
    /\ csv = SeedFiles
    /\ procs = [s \in Sessions |-> Idle]
    /\ last = NoCall

\* The clock after a call made at time t.  Only a statement that stores
\* CURRENT_TIMESTAMP in a row observes the time that has passed; the model
\* keeps the clock at the latest time a statement has stored.
Observed(r, t) == IF r.rowcount > 0 THEN t ELSE now

\* What last keeps of a call: the full record when the primary statement
\* was executed, and only the operation's name when the store refused it
\* (the call then changed nothing and returned False).
Recorded(r, call) ==
    IF r.committed THEN call ELSE [NoCall EXCEPT !.op = call.op]

\* The tables after a call, within the bounds of the model.
Commit(db) ==
    /\ db.next_id <= MaxId + 1
    /\ Len(db.audit_log) <= MaxAudit
    /\ notifications' = db.notifications
    /\ next_id' = db.next_id
    /\ audit_log' = db.audit_log

\* create_notification(u, ...) for a recipient of us and arguments of inputs.
Create(us, inputs) ==
    \E t \in Clock, u \in us, a0 \in inputs :
      \E env \in Envs(t, {}, FALSE) :
        LET a == [a0 EXCEPT !.user_id = u]
            r == create_notification(Db, session, a, env)
        IN  /\ Commit(r.db)
            /\ now' = Observed(r, t)
            /\ last' = Recorded(r, [NoCall EXCEPT !.op = "create_notification", !.user_id = u,
                                      !.args = a, !.ret = r.ret,
                                      !.committed = r.committed,
                                      !.rowcount = r.rowcount,
                                      !.first_id = next_id])
            /\ UNCHANGED <<users, session, csv, procs, wall>>

\* notify_multiple_users(user_ids, ...) for a list of lists.
NotifyUsers(lists) ==
    \E t \in Clock, user_ids \in lists :
      \E env \in Envs(t, Range(user_ids), FALSE) :
        LET r == notify_multiple_users(Db, session, user_ids, IssueReportedI9, env)
        IN  /\ env.store_ok
            /\ Commit(r.db)
            /\ now' = Observed(r, t)
            /\ last' = [NoCall EXCEPT !.op = "notify_multiple_users",
                                      !.user_ids = user_ids,
                                      !.args = IssueReportedI9,
                                      !.rejected = env.rejected,
                                      !.ret = r.ret,
                                      !.committed = r.created # <<>>,
                                      !.rowcount = r.rowcount,
                                      !.attempted = r.attempted,
                                      !.created = r.created,
                                      !.first_id = next_id]
            /\ UNCHANGED <<users, session, csv, procs, wall>>

\* notify_by_role(role, ...) for a role of roles.
NotifyRole(roles) ==
    \E t \in Clock, role \in roles :
      \E env \in Envs(t, Range(UsersWithRole(users, role, 1)), FALSE) :
        LET r == notify_by_role(Db, session, users, role, IssueResolvedI9, env)
        IN  /\ Commit(r.db)
            /\ now' = Observed(r, t)
            /\ last' = IF ~env.store_ok THEN [NoCall EXCEPT !.op = "notify_by_role"] ELSE
                       [NoCall EXCEPT !.op = "notify_by_role",
                                      !.role = role,
                                      !.user_ids = UsersWithRole(users, role, 1),
                                      !.args = IssueResolvedI9,
                                      !.rejected = env.rejected,
                                      !.ret = r.ret,
                                      !.committed = r.created # <<>>,
                                      !.rowcount = r.rowcount,
                                      !.attempted = r.attempted,
                                      !.created = r.created,
                                      !.first_id = next_id]
            /\ UNCHANGED <<users, session, csv, procs, wall>>

\* mark_notification_read(id) for an id of ids, which the store has handed
\* out or not.
MarkReadOf(ids) ==
    \E t \in Clock, id \in ids :
      \E env \in Envs(t, {}, get_current_user(session) # NULL) :
        LET r == mark_notification_read(Db, session, id, env)
        IN  /\ Commit(r.db)
            /\ now' = Observed(r, t)
            /\ last' = Recorded(r, [NoCall EXCEPT !.op = "mark_notification_read",
                                      !.notification_id = id,
                                      !.ret = r.ret,
                                      !.committed = r.committed,
                                      !.rowcount = r.rowcount])
            /\ UNCHANGED <<users, session, csv, procs, wall>>

\* mark_notification_read(id) for every id of the model.
MarkRead == MarkReadOf(1..MaxId)

\* mark_all_notifications_read(u) for a user of us.  again records that
\* the call before was the same call and that both UPDATEs were executed.
MarkAllRead(us) ==
    \E t \in Clock, u \in us :
      \E env \in Envs(t, {}, FALSE) :
        LET r == mark_all_notifications_read(Db, u, env)
        IN  /\ Commit(r.db)
            /\ now' = Observed(r, t)
            /\ last' = Recorded(r, [NoCall EXCEPT !.op = "mark_all_notifications_read",
                                      !.user_id = u,
                                      !.ret = r.ret,
                                      !.committed = r.committed,
                                      !.rowcount = r.rowcount,
                                      !.again = /\ last.op = "mark_all_notifications_read"
                                                /\ last.user_id = u
                                                /\ last.committed /\ r.committed])
            /\ UNCHANGED <<users, session, csv, procs, wall>>

\* delete_all_read_notifications(u) for a user of us; it reads no clock.
PurgeRead(us) ==
    \E u \in us :
      \E env \in Envs(now, {}, FALSE) :
        LET r == delete_all_read_notifications(Db, u, env)
        IN  /\ Commit(r.db)
            /\ last' = Recorded(r, [NoCall EXCEPT !.op = "delete_all_read_notifications",
                                      !.user_id = u,
                                      !.ret = r.ret,
                                      !.committed = r.committed,
                                      !.rowcount = r.rowcount])
            /\ UNCHANGED <<users, session, now, csv, procs, wall>>

\* delete_notification(id) for an id of ids, which the store has handed out
\* or not.
DeleteOne(ids) ==
    \E id \in ids :
      \E env \in Envs(now, {}, get_current_user(session) # NULL) :
        LET r == delete_notification(Db, session, id, env)
        IN  /\ Commit(r.db)
            /\ last' = Recorded(r, [NoCall EXCEPT !.op = "delete_notification",
                                      !.notification_id = id,
                                      !.ret = r.ret,
                                      !.committed = r.committed,
                                      !.rowcount = r.rowcount])
            /\ UNCHANGED <<users, session, now, csv, procs, wall>>

\* get_user_notifications(u, limit, include_read) for a user of us; a
\* SELECT, which writes nothing.
List(us) ==
    \E u \in us, limit \in {1, MaxId}, include_read \in BOOLEAN :
      /\ last' = [NoCall EXCEPT !.op = "get_user_notifications",
                                !.user_id = u,
                                !.listed = get_user_notifications(notifications, u,
                                                                  limit, include_read)]
      /\ UNCHANGED <<notifications, next_id, audit_log, users, session, now, csv, procs, wall>>

\* notify_task_due_soon("T1", "fix crack", u, days) for an assignee of us and
\* a number of days of days.
DueSoon(us, days) ==
    \E t \in Clock, u \in us, days_remaining \in days :
      \E env \in Envs(t, {}, FALSE) :
        LET r == notify_task_due_soon(Db, session, "T1", "fix crack", u,
                                      days_remaining, env)
        IN  /\ Commit(r.db)
            /\ now' = Observed(r, t)
            /\ last' = Recorded(r, [NoCall EXCEPT !.op = "notify_task_due_soon",
                                      !.user_id = u,
                                      !.days_remaining = days_remaining,
                                      !.ret = r.ret,
                                      !.committed = r.committed,
                                      !.rowcount = r.rowcount,
                                      !.first_id = next_id])
            /\ UNCHANGED <<users, session, csv, procs, wall>>

\* register_user(..., role, ...) for a role of roles, with a username that
\* is free or is user 1's.
RegisterUser(roles) ==
    \E role \in roles, existing_user \in {NULL, 1} :
      \E env \in Envs(now, {}, FALSE) :
        LET r == register_user(users, role, existing_user, env)
        IN  /\ Cardinality(DOMAIN r.tbl) <= MaxUsers
            /\ users' = r.tbl
            /\ last' = [NoCall EXCEPT !.op = "register_user", !.role = role,
                                      !.ret = r.ret,
                                      !.committed = (r.ret = PyTrue),
                                      !.user_id = IF r.ret = PyTrue
                                                  THEN Cardinality(DOMAIN r.tbl)
                                                  ELSE NULL]
            /\ UNCHANGED <<notifications, next_id, audit_log, session, now, csv, procs, wall>>

\* login(username, password) with credentials of a user of us or of nobody;
\* u is the users row the credentials match, NULL when they match none.  The session is filled in before log_audit
\* runs, so a login whose audit INSERT raises returns False with the
\* session already authenticated.
Login(us) ==
    \E u \in us \cup {NULL} :
      \E env \in Envs(now, {}, u # NULL) :
        LET found == env.store_ok /\ u \in DOMAIN users
            logged == log_audit(Db, u, "login", "user", u, env)
        IN  /\ Commit(IF found THEN logged.db ELSE Db)
            /\ session' = IF found THEN LoginSession(users, session, u, wall)
                          ELSE session
            /\ last' = [NoCall EXCEPT !.op = "login", !.user_id = u,
                                      !.ret = PyBool(found /\ logged.ok),
                                      !.committed = found]
            /\ UNCHANGED <<users, now, csv, procs, wall>>

\* logout().  log_audit is called outside any try: when it raises, the
\* exception leaves logout before the session is reset.
Logout ==
    \E env \in Envs(now, {}, session.user_data # NULL) :
      LET user_id == session.user_data
          logged == logout(Db, session, env)
      IN  /\ env.store_ok
          /\ Commit(logged.db)
          /\ session' = logged.sess
          /\ last' = [NoCall EXCEPT !.op = "logout", !.user_id = user_id,
                                    !.ret = [type |-> IF logged.ok THEN "NoneType" ELSE "raised",
                                             value |-> 0],
                                    !.committed = logged.ok]
          /\ UNCHANGED <<users, now, csv, procs, wall>>

\* The read-state tracker of two users, fed by single creates.
NextReadState ==
    \/ Create({1, 2}, {TaskAssignedT1})
    \/ MarkRead
    \/ MarkAllRead({1, 2})
    \/ PurgeRead({1, 2})

SpecReadState == Init /\ [][NextReadState]_vars

\* The bulk operations of the read-state tracker.
NextBulk ==
    \/ Create({1, 2}, {TaskAssignedT1})
    \/ MarkAllRead({1, 2})
    \/ PurgeRead({1, 2})

SpecBulk == Init /\ [][NextBulk]_vars

\* The fan-out dispatcher.
NextFanout ==
    \/ NotifyUsers(RecipientLists)
    \/ NotifyRole(Roles)

SpecFanout == Init /\ [][NextFanout]_vars

\* The operations that write the audit log, run from a session that logs
\* in and out.
NextAudit ==
    \/ Login({1})
    \/ Logout
    \/ Create({1}, {TaskAssignedT1})
    \/ MarkRead

SpecAudit == Init /\ [][NextAudit]_vars

\* The store fed with registered and unregistered types, by a caller who
\* may be logged in.
NextStore ==
    \/ Create({2}, {TaskAssignedT1, CustomEvent, CustomEventNoDetails})
    \/ Login({1})

SpecStore == Init /\ [][NextStore]_vars

\* The four writes that are followed by an audit INSERT, for one user who
\* may be logged in.
NextFrame ==
    \/ Login({1})
    \/ Create({1}, {TaskAssignedT1})
    \/ MarkReadOf({1})
    \/ MarkAllRead({1})
    \/ PurgeRead({1})

SpecFrame == Init /\ [][NextFrame]_vars

\* The state after a page handler with result r.
Handled(r, op, args) ==
    /\ Len(r.files.issues) <= MaxRows
    /\ Len(r.files.tasks) <= MaxRows
    /\ Commit(r.db)
    /\ csv' = r.files
    /\ last' = [NoCall EXCEPT !.op = op, !.user_id = get_current_user(session),
                              !.args = args,
                              !.first_id = next_id, !.saved = r.saved,
                              !.shown = r.shown, !.notify = r.notify,
                              !.record_id = r.record_id]
    /\ UNCHANGED <<users, session, now, procs, wall>>

\* The managers a notify_by_role('manager', ...) would address.
Managers == Range(UsersWithRole(users, "manager", 1))

\* The page handlers are run at the time of the last statement that
\* stored a timestamp: no time passes between the events of a run.

\* A logged-in user submits the report form.
ReportIssue ==
    \E save_ok \in BOOLEAN, env \in Envs(now, {}, FALSE) :
        /\ get_current_user(session) # NULL
        /\ Handled(report_issue_form(csv, Db, session, users, "M1", "Structural",
                                     "Critical", "crack", save_ok, env),
                   "report_issue_form",
                   [NoArgs EXCEPT !.reference_type = "issue"])

\* A logged-in user sets the status of an issue of the file to one of
\* statuses.
UpdateIssueStatus(statuses) ==
    \E save_ok \in BOOLEAN, i \in DOMAIN csv.issues, new_status \in statuses :
      \E env \in Envs(now, {}, FALSE) :
        /\ get_current_user(session) # NULL
        /\ Handled(load_issue_details(csv, Db, session, users, csv.issues[i].issue_id,
                                      new_status, save_ok, env),
                   "load_issue_details",
                   [NoArgs EXCEPT !.reference_type = "issue",
                                  !.details = new_status])

\* A logged-in user submits the task form for user 2, with no related issue.
CreateTask ==
    \E save_ok \in BOOLEAN, env \in Envs(now, {}, FALSE) :
        /\ get_current_user(session) # NULL
        /\ Handled(create_new_task(csv, Db, session, "", "M1", 2, "2026-01-31",
                                   "fix crack", "High", save_ok, env),
                   "create_new_task",
                   [NoArgs EXCEPT !.user_id = 2, !.reference_type = "task"])

\* A logged-in user sets the status of module M1 of project P1 to one of
\* statuses.
UpdateModuleStatus(statuses) ==
    \E modules_ok \in BOOLEAN, projects_ok \in BOOLEAN, new_status \in statuses :
      \E env \in Envs(now, {}, FALSE) :
        /\ get_current_user(session) # NULL
        /\ Handled(show_project_modules(csv, Db, session, users, "P1", "M1", new_status,
                                        IF new_status = "Completed" THEN "2026-01-31"
                                        ELSE "",
                                        modules_ok, projects_ok, env),
                   "show_project_modules",
                   [NoArgs EXCEPT !.reference_type = "module",
                                  !.details = new_status])

\* The task form of an issue's page, for an issue of the file and assignee 2.
CreateTaskForIssue ==
    \E save_ok \in BOOLEAN, i \in DOMAIN csv.issues :
        /\ get_current_user(session) # NULL
        /\ Handled(create_task_for_issue(csv, Db, session, csv.issues[i].issue_id,
                                         csv.issues[i].module_id, 2, "2026-01-31",
                                         "fix crack", "High", save_ok),
                   "create_task_for_issue",
                   [NoArgs EXCEPT !.user_id = 2, !.reference_type = "task"])

\* The `Update Status` button of a task's page, shown for a task that is
\* not Completed to its assignee and to managers and supervisors.
UpdateTaskStatus(statuses) ==
    \E issues_ok \in BOOLEAN, tasks_ok \in BOOLEAN, i \in DOMAIN csv.tasks,
       new_status \in statuses :
      \E env \in Envs(now, {}, FALSE) :
        LET user_data == get_current_user(session)
        IN  /\ user_data # NULL
            /\ csv.tasks[i].status # "Completed"
            /\ \/ user_data = csv.tasks[i].assigned_to
               \/ users[user_data] \in {"manager", "supervisor"}
            /\ Handled(load_task_details(csv, Db, session, users, csv.tasks[i].task_id,
                                         new_status, issues_ok, tasks_ok, env),
                       "load_task_details",
                       [NoArgs EXCEPT !.reference_type = "task",
                                      !.details = new_status])

\* main() of app.py shows the login page to a session that is not
\* authenticated, and the pages to one that is.
LoginPage(us) == ~session.authenticated /\ session.session_expiry # NULL /\ Login(us)

\* Time passes between two page loads: d hours, for a d of ds.
Tick(ds) ==
    \E d \in ds :
      /\ wall + d <= MaxHours
      /\ wall' = wall + d
      /\ last' = [NoCall EXCEPT !.op = "tick"]
      /\ UNCHANGED <<notifications, next_id, audit_log, users, session, now, csv, procs>>

\* A page pass through app.py.
MainPass ==
    \E env \in Envs(now, {}, session.user_data # NULL) :
      LET r == main(Db, session, wall, env)
      IN  /\ env.store_ok
          /\ Commit(r.db)
          /\ session' = r.sess
          /\ last' = [NoCall EXCEPT !.op = "main", !.ret = r.ret,
                                    !.user_id = r.user,
                                    !.committed = (r.ret # Raised)]
          /\ UNCHANGED <<users, now, csv, procs, wall>>

\* A page pass through a script of pages/, which starts with
\* is_authenticated.
PagePass ==
    \E env \in Envs(now, {}, session.user_data # NULL) :
      LET r == is_authenticated(Db, session, wall, env)
      IN  /\ env.store_ok
          /\ Commit(r.db)
          /\ session' = r.sess
          /\ last' = [NoCall EXCEPT !.op = "page", !.ret = r.ret,
                                    !.user_id = session.user_data,
                                    !.committed = (r.ret # Raised)]
          /\ UNCHANGED <<users, now, csv, procs, wall>>

\* The page handlers that change a domain record and then notify.
NextFlows ==
    \/ LoginPage({1})
    \/ ReportIssue
    \/ UpdateIssueStatus({"Resolved"})
    \/ CreateTask
    \/ UpdateModuleStatus({"Completed"})

SpecFlows == Init /\ [][NextFlows]_vars

\* The whole life of user 1's notifications: created under two types,
\* listed, marked read one by one or all at once, purged.
NextRecords ==
    \/ Create({1}, {TaskAssignedT1, CustomEvent})
    \/ List({1})
    \/ MarkReadOf({1, 2})
    \/ MarkAllRead({1})
    \/ PurgeRead({1})

SpecRecords == Init /\ [][NextRecords]_vars

\* Group delivery to users 1 and 2 and to the managers, and the read-state
\* operations of the recipients.
NextDelivery ==
    \/ NotifyUsers({<<1, 2>>})
    \/ NotifyRole({"manager"})
    \/ MarkReadOf({2})
    \/ MarkAllRead({1})
    \/ PurgeRead({2})

SpecDelivery == Init /\ [][NextDelivery]_vars

\* Single deletions, by a caller who may be logged in.
NextDelete ==
    \/ Login({1})
    \/ Create({1, 2}, {TaskAssignedT1})
    \/ DeleteOne({1, 2})

SpecDelete == Init /\ [][NextDelete]_vars

\* Every operation that calls log_audit, for one user who logs in and out.
NextTrail ==
    \/ Login({1})
    \/ Logout
    \/ Create({1}, {TaskAssignedT1})
    \/ MarkReadOf({1})
    \/ PurgeRead({1})

SpecTrail == Init /\ [][NextTrail]_vars

\* The two ways an issue becomes Resolved: the status form of the issue and
\* the completion of a task that is linked to it.
NextResolve ==
    \/ LoginPage({2, 3})
    \/ ReportIssue
    \/ UpdateIssueStatus({"Resolved"})
    \/ CreateTaskForIssue
    \/ UpdateTaskStatus({"In Progress", "Completed"})

SpecResolve == Init /\ [][NextResolve]_vars

\* Due-date reminders for the tasks of user 2, at zero to three days, which
\* the user reads and purges.
NextDueSoon ==
    \/ DueSoon({2}, 0..3)
    \/ MarkAllRead({2})
    \/ PurgeRead({2})

SpecDueSoon == Init /\ [][NextDueSoon]_vars

\* Role notifications while users are being registered.
NextSnapshot ==
    \/ NotifyRole({"manager"})
    \/ RegisterUser({"manager", "operator"})

SpecSnapshot == Init /\ [][NextSnapshot]_vars

\* Session s enters create_issue or create_task (an op of ops): get_issues
\* or get_tasks reads the whole file into the session's dataframe.
Load(s, ops) ==
    \E op \in ops :
        /\ procs[s].pc = "idle"
        /\ procs' = [procs EXCEPT ![s] =
                       [pc |-> "loaded", op |-> op, args |-> NoArgs,
                        df |-> IF op = "create_issue" THEN csv.issues
                               ELSE csv.tasks]]
        /\ UNCHANGED <<notifications, next_id, audit_log, users, session, now, csv, wall, last>>

\* Session s finishes its call on the dataframe it loaded: the id after
\* the dataframe's last row, the new row appended, and save_data writing
\* the dataframe over the file, whatever the file holds by then.
Save(s) ==
    \E save_ok \in BOOLEAN :
        LET p == procs[s]
            issue == create_issue([csv EXCEPT !.issues = p.df], "M1", Acting[s],
                                  "Structural", "High", "crack", save_ok)
            task == create_task([csv EXCEPT !.tasks = p.df], "", "M1", 2, Acting[s],
                                "2026-01-31", "fix crack", "normal", save_ok)
            files == IF p.op = "create_issue" THEN issue.files ELSE task.files
        IN  /\ p.pc = "loaded"
            /\ Len(files.issues) <= MaxRows
            /\ Len(files.tasks) <= MaxRows
            /\ csv' = IF save_ok THEN files ELSE csv
            /\ procs' = [procs EXCEPT ![s] = Idle]
            /\ last' = [NoCall EXCEPT !.op = p.op, !.user_id = Acting[s],
                                      !.saved = save_ok,
                                      !.record_id = IF ~save_ok THEN ""
                                                    ELSE IF p.op = "create_issue"
                                                    THEN issue.new_id
                                                    ELSE files.tasks[Len(files.tasks)].task_id]
            /\ UNCHANGED <<notifications, next_id, audit_log, users, session, now, wall>>

\* Two sessions that create issues and tasks, each call a load and a save.
NextFiles ==
    \E s \in Sessions :
        \/ Load(s, {"create_issue", "create_task"})
        \/ Save(s)

SpecFiles == Init /\ [][NextFiles]_vars

\* One browser session over a day: it logs in and out and loads pages
\* an hour or a night apart.
NextExpiry ==
    \/ LoginPage({1, 3})
    \/ Logout
    \/ Tick({1, 9})
    \/ MainPass
    \/ PagePass

SpecExpiry == Init /\ [][NextExpiry]_vars

\* Session s enters a call of ops for a user of us: create_notification
\* (of a task_assigned notification) or mark_all_notifications_read.
Call(s, ops, us) ==
    \E op \in ops, u \in us :
        /\ procs[s].pc = "idle"
        /\ procs' = [procs EXCEPT ![s] =
                       [pc |-> "statement", op |-> op,
                        args |-> IF op = "create_notification"
                                 THEN [TaskAssignedT1 EXCEPT !.user_id = u]
                                 ELSE [NoArgs EXCEPT !.user_id = u],
                        df |-> <<>>]]
        /\ UNCHANGED <<notifications, next_id, audit_log, users, session, now, csv, wall, last>>

\* Session s runs the statement of its call through execute_update: the
\* INSERT or the UPDATE, committed on its own connection.  A statement the
\* store refuses raises, and the call returns False from its except.
Statement(s) ==
    \E t \in Clock :
      \E env \in Envs(t, {}, FALSE) :
        LET p == procs[s]
            r == IF p.op = "create_notification"
                 THEN create_notification(Db, session, p.args, env)
                 ELSE [db |-> [Db EXCEPT !.notifications =
                                  MarkAllUpdate(@, p.args.user_id, t)],
                       rowcount |-> get_unread_notification_count(notifications,
                                                                  p.args.user_id)]
        IN  /\ p.pc = "statement"
            /\ IF env.store_ok
               THEN /\ r.db.next_id <= MaxId + 1
                    /\ notifications' = r.db.notifications
                    /\ next_id' = r.db.next_id
                    /\ now' = IF r.rowcount > 0 THEN t ELSE now
                    /\ procs' = [procs EXCEPT ![s].pc = "audit"]
               ELSE /\ procs' = [procs EXCEPT ![s] = Idle]
                    /\ UNCHANGED <<notifications, next_id, now>>
            /\ UNCHANGED <<audit_log, users, session, csv, wall, last>>

\* Session s runs the log_audit that follows its statement, and returns.
Audit(s) ==
    \E env \in Envs(now, {}, FALSE) :
        LET p == procs[s]
            logged == IF p.op = "create_notification"
                      THEN log_audit(Db, get_current_user(session), "create",
                                     "notification", NULL, env)
                      ELSE log_audit(Db, p.args.user_id, "read_all",
                                     "notification", NULL, env)
        IN  /\ p.pc = "audit"
            /\ Len(logged.db.audit_log) <= MaxAudit
            /\ audit_log' = logged.db.audit_log
            /\ procs' = [procs EXCEPT ![s] = Idle]
            /\ UNCHANGED <<notifications, next_id, users, session, now, csv, wall, last>>

\* Two sessions that create notifications and mark all of user 1's read,
\* statement by statement.
NextSessions ==
    \E s \in Sessions :
        \/ Call(s, {"create_notification"}, {1, 2})
        \/ Call(s, {"mark_all_notifications_read"}, {1})
        \/ Statement(s)
        \/ Audit(s)

SpecSessions == Init /\ [][NextSessions]_vars

(* ------------------------------------------------------------------ *)
(* Properties                                                         *)
(* ------------------------------------------------------------------ *)

\* The rows of the table that user_id owns.
OwnedBy(table, user_id) ==
    LET Where(n) == n.user_id = user_id
    IN  SelectSeq(table, Where)

\* Python's `text in message`, at the grain of template pieces.
Contains(message, text) == \E i \in DOMAIN message : message[i] = text

\* The rows the last call inserted, in rowid order.
NewRows ==
    LET New(n) == n.notification_id >= last.first_id
    IN  SelectSeq(notifications, New)

\* The recipients of a list that the store did not reject, in list order.
Accepted(user_ids, rejected) ==
    LET Ok(u) == u \notin rejected
    IN  SelectSeq(user_ids, Ok)

\* C1: a second mark_read of a notification that is already read leaves its
\* read_at at the value the first call set.
C1_MarkReadKeepsTimestamp ==
    [][\A i \in DOMAIN notifications :
         ( /\ last'.op = "mark_notification_read"
           /\ last'.notification_id = notifications[i].notification_id
           /\ notifications[i].read_at # NULL )
         => \A j \in DOMAIN notifications' :
              notifications'[j].notification_id = notifications[i].notification_id
              => notifications'[j].read_at = notifications[i].read_at]_vars

\* C2: for every user the unread count equals the length of the list of
\* unread notifications, taken with a limit that covers them all.
C2_CountEqualsUnreadList ==
    \A u \in Users :
        get_unread_notification_count(notifications, u)
          = Len(get_user_notifications(notifications, u, MaxId, FALSE))

\* C3: notify_multiple_users tries every recipient of its list, reports
\* success only if no create failed, and the rows it inserted are owned by
\* exactly the recipients the store did not reject.
C3_FanoutIsBestEffort ==
    last.op = "notify_multiple_users" =>
        /\ last.attempted = last.user_ids
        /\ (last.ret = PyTrue => last.created = last.user_ids)
        /\ Len(NewRows) = Len(Accepted(last.user_ids, last.rejected))
        /\ \A k \in DOMAIN NewRows :
             /\ NewRows[k].user_id = Accepted(last.user_ids, last.rejected)[k]
             /\ NewRows[k].entity_id = last.args.reference_id
             /\ NewRows[k].read_at = NULL

\* The store rejected the write for user 2 alone out of [1, 2, 3]: users 1
\* and 3 own the new notification and user 2 owns none.
C3_Witness ==
    /\ last.op = "notify_multiple_users"
    /\ last.user_ids = <<1, 2, 3>>
    /\ last.rejected = {2}
    /\ Len(OwnedBy(NewRows, 1)) = 1
    /\ Len(OwnedBy(NewRows, 3)) = 1
    /\ OwnedBy(notifications, 2) = <<>>

\* C4: whenever the primary write of create, mark_read, mark_all_read or
\* purge_read was committed, the call returns True, whatever became of the
\* audit write.
C4_AuditFailureNotSurfaced ==
    ( /\ last.op \in {"create_notification", "mark_notification_read",
                      "mark_all_notifications_read", "delete_all_read_notifications"}
      /\ last.committed )
    => last.ret = PyTrue

\* C5: notify_by_role for a role nobody holds returns success and creates
\* nothing.
C5_EmptyRoleIsSuccess ==
    (last.op = "notify_by_role" /\ last.role # "" /\ last.user_ids = <<>>)
    => (last.ret = PyTrue /\ last.created = <<>>)

\* C6: after a mark_all_read of u whose UPDATE ran, u has no unread
\* notification; a second mark_all_read of u right after it changes no row.
C6_MarkAllTwice ==
    [][( /\ last'.op = "mark_all_notifications_read"
         /\ last'.committed )
       => /\ get_unread_notification_count(notifications', last'.user_id) = 0
          /\ ( ( /\ last.op = "mark_all_notifications_read"
                 /\ last.committed
                 /\ last.user_id = last'.user_id )
               => (notifications' = notifications /\ last'.rowcount = 0) )]_vars

\* mark_all_read has just run twice in a row for a user who owns
\* notifications, which the first call marked.
C6_Witness ==
    /\ last.op = "mark_all_notifications_read"
    /\ last.again
    /\ Len(OwnedBy(notifications, last.user_id)) >= 2

\* C7 (as stated): mark_all_read returns the number of notifications that
\* were unread before the call.
C7_ReturnsCount ==
    [][( /\ last'.op = "mark_all_notifications_read"
         /\ last'.committed )
       => last'.ret.value = get_unread_notification_count(notifications, last'.user_id)]_vars

\* C7 (amended): mark_all_read returns a bool; the number of rows its UPDATE
\* changed is the number of the user's notifications that were unread
\* before the call, and those are the rows that are read after it.
C7_UpdateCountsUnread ==
    [][( /\ last'.op = "mark_all_notifications_read"
         /\ last'.committed )
       => /\ last'.ret.type = "bool"
          /\ last'.rowcount = get_unread_notification_count(notifications, last'.user_id)
          /\ last'.rowcount =
               Cardinality({i \in DOMAIN notifications :
                              notifications'[i].read_at # notifications[i].read_at})]_vars

\* mark_all_read has just changed two notifications of a user while another
\* notification was already read.
C7_Witness ==
    /\ last.op = "mark_all_notifications_read"
    /\ last.committed
    /\ last.rowcount = 2
    /\ Len(notifications) = 3

\* C8: purge_read(u) removes exactly the rows that u owns and that are read,
\* changes no other row, and so leaves every unread count as it was.
C8_PurgeRemovesExactlyRead ==
    [][( /\ last'.op = "delete_all_read_notifications"
         /\ last'.committed )
       => LET Before == Range(notifications)
              After == Range(notifications')
          IN  /\ After \subseteq Before
              /\ Before \ After =
                   {n \in Before : n.user_id = last'.user_id /\ n.read_at # NULL}
              /\ last'.rowcount = Len(notifications) - Len(notifications')
              /\ \A u \in Users :
                   get_unread_notification_count(notifications', u)
                     = get_unread_notification_count(notifications, u)]_vars

\* purge_read has just deleted the three notifications of a user, all read.
C8_Witness ==
    /\ last.op = "delete_all_read_notifications"
    /\ last.committed
    /\ last.rowcount = 3
    /\ notifications = <<>>

\* C9: after create(u, task_assigned, (task, T1), x) for a user who owned
\* nothing, list(u, include_read = true) holds exactly one record, with
\* reference (task, T1), read_at null and a message containing x.
C9_CreateThenList ==
    ( /\ last.op = "create_notification"
      /\ last.committed
      /\ last.args = [TaskAssignedT1 EXCEPT !.user_id = last.user_id]
      /\ Len(OwnedBy(notifications, last.user_id)) = 1 )
    => LET listed == get_user_notifications(notifications, last.user_id, 20, TRUE)
       IN  /\ Len(listed) = 1
           /\ listed[1].reference_type = "task"
           /\ listed[1].reference_id = "T1"
           /\ listed[1].read_at = NULL
           /\ Contains(listed[1].message, "x")

\* C10 (as stated): when some but not all recipients fail, the result is a
\* PartialFailure that lists the recipients that failed.
C10_ResultListsFailed ==
    ( /\ last.op \in {"notify_multiple_users", "notify_by_role"}
      /\ last.rejected # {}
      /\ last.rejected # Range(last.user_ids) )
    => ( /\ last.ret.type = "PartialFailure"
         /\ last.ret.failed = Accepted(last.user_ids, Range(last.user_ids) \ last.rejected) )

\* C10 (amended): when some recipient fails, the result is the bool False
\* and nothing more: it names no recipient.
C10_ResultIsFalse ==
    ( /\ last.op \in {"notify_multiple_users", "notify_by_role"}
      /\ last.rejected # {} )
    => ( /\ last.ret = PyFalse
         /\ DOMAIN last.ret = {"type", "value"} )

\* notify_multiple_users([1, 2, 3]) has just returned False after the store
\* rejected user 2 alone.
C10_Witness ==
    /\ last.op = "notify_multiple_users"
    /\ last.user_ids = <<1, 2, 3>>
    /\ last.rejected = {2}
    /\ last.created = <<1, 3>>
    /\ last.ret = PyFalse

\* C11: a mark_read whose UPDATE ran for an id that no notification has
\* returns True and leaves every notification record as it was.
C11_MarkReadAbsentIsNoop ==
    [][( /\ last'.op = "mark_notification_read"
         /\ last'.committed
         /\ \A i \in DOMAIN notifications :
              notifications[i].notification_id # last'.notification_id )
       => /\ last'.ret = PyTrue
          /\ notifications' = notifications]_vars

\* C12: create_notification with a type that NOTIFICATION_TYPES does not
\* hold returns a bool (it raises nothing), and when its INSERT ran the new
\* row belongs to the recipient, is unread, carries the type and the
\* reference it was given, the title 'Notification' and the details as its
\* whole message ('' for no details).
C12_UnknownTypeFallsBack ==
    /\ last.op = "create_notification" => last.ret.type = "bool"
    /\ ( /\ last.op = "create_notification"
         /\ last.committed
         /\ last.args.notification_type \notin DOMAIN NOTIFICATION_TYPES )
       => /\ Len(NewRows) = 1
          /\ NewRows[1] = notifications[Len(notifications)]
          /\ NewRows[1].user_id = last.user_id
          /\ NewRows[1].read_at = NULL
          /\ NewRows[1].notification_type = last.args.notification_type
          /\ NewRows[1].entity_type = last.args.reference_type
          /\ NewRows[1].entity_id = last.args.reference_id
          /\ NewRows[1].title = <<"Notification">>
          /\ NewRows[1].message =
               <<IF last.args.details = PyNone THEN "" ELSE last.args.details>>

\* A 'custom_event' notification with details has just been stored for
\* user 2 after a notification of a registered type.
C12_Witness ==
    /\ last.op = "create_notification"
    /\ last.committed
    /\ last.args = [CustomEvent EXCEPT !.user_id = 2]
    /\ Len(notifications) = 2
    /\ notifications[1].notification_type = "task_assigned"
    /\ notifications[2].message = <<"Line 3 stopped">>
    /\ notifications[2].read_at = NULL

\* The notifications of the table that a list for user_id may return.
Eligible(table, user_id, include_read) ==
    {n \in Range(table) : n.user_id = user_id /\ (include_read \/ n.read_at = NULL)}

\* C13: for every store content, user, limit and include_read,
\* get_user_notifications returns min(limit, number of eligible rows)
\* distinct rows, each an eligible row of that user (unread when
\* include_read is false), in descending order of created_at, and no
\* eligible row left out is newer than a row returned.
C13_ListIsFilteredPrefix ==
    \A u \in Users, limit \in 0..MaxId, include_read \in BOOLEAN :
        LET listed == get_user_notifications(notifications, u, limit, include_read)
            eligible == Eligible(notifications, u, include_read)
            Ids == {listed[i].notification_id : i \in DOMAIN listed}
        IN  /\ Len(listed) = IF Cardinality(eligible) < limit
                             THEN Cardinality(eligible) ELSE limit
            /\ Cardinality(Ids) = Len(listed)
            /\ \A i \in DOMAIN listed :
                 \E n \in eligible :
                   /\ n.notification_id = listed[i].notification_id
                   /\ n.created_at = listed[i].created_at
                   /\ n.read_at = listed[i].read_at
                   /\ n.title = listed[i].title
                   /\ n.message = listed[i].message
            /\ \A i, j \in DOMAIN listed :
                 i < j => listed[i].created_at >= listed[j].created_at
            /\ \A n \in eligible :
                 n.notification_id \notin Ids
                 => \A i \in DOMAIN listed : listed[i].created_at >= n.created_at

\* C14: every notification that get_notifications returns has seen true
\* exactly when its read_at is not null.
C14_SeenMatchesReadAt ==
    \A u \in Users, include_seen \in BOOLEAN :
        LET shown == get_notifications(notifications, u, MaxId, include_seen)
        IN  \A i \in DOMAIN shown :
              (shown[i].seen = PyTrue) <=> (shown[i].read_at # NULL)

\* get_notifications has something to show for some user.  No reachable
\* state satisfies this: get_user_notifications hands the adapter an empty
\* list in every state, so C14_SeenMatchesReadAt speaks about no row.
C14_AdapterShowsSomething ==
    \E u \in Users, include_seen \in BOOLEAN :
        get_notifications(notifications, u, MaxId, include_seen) # <<>>

\* C15: when the primary statement of create, mark_read, mark_all_read or
\* purge_read ran and the audit INSERT after it failed (the call returns
\* False), the notifications table holds the statement's effect: the new
\* unread row, the read_at of the rows the UPDATE matched, or the table
\* without the rows the DELETE matched; no other row differs and the audit
\* log has no new row.
C15_PrimaryWriteSurvivesAudit ==
    [][( /\ last'.committed
         /\ last'.ret = PyFalse
         /\ last'.op \in {"create_notification", "mark_notification_read",
                          "mark_all_notifications_read",
                          "delete_all_read_notifications"} )
       => /\ audit_log' = audit_log
          /\ last'.op = "create_notification" =>
               /\ Len(notifications') = Len(notifications) + 1
               /\ SubSeq(notifications', 1, Len(notifications)) = notifications
               /\ notifications'[Len(notifications')].notification_id = next_id
               /\ notifications'[Len(notifications')].user_id = last'.user_id
               /\ notifications'[Len(notifications')].read_at = NULL
          /\ last'.op = "mark_notification_read" =>
               /\ Len(notifications') = Len(notifications)
               /\ \A i \in DOMAIN notifications :
                    IF notifications[i].notification_id = last'.notification_id
                    THEN /\ notifications'[i].read_at = now'
                         /\ notifications'[i] =
                              [notifications[i] EXCEPT !.read_at = now']
                    ELSE notifications'[i] = notifications[i]
          /\ last'.op = "mark_all_notifications_read" =>
               /\ Len(notifications') = Len(notifications)
               /\ \A i \in DOMAIN notifications :
                    IF /\ notifications[i].user_id = last'.user_id
                       /\ notifications[i].read_at = NULL
                    THEN notifications'[i] =
                           [notifications[i] EXCEPT !.read_at = now']
                    ELSE notifications'[i] = notifications[i]
          /\ last'.op = "delete_all_read_notifications" =>
               LET Kept(n) == ~(n.user_id = last'.user_id /\ n.read_at # NULL)
               IN  notifications' = SelectSeq(notifications, Kept)]_vars

\* mark_notification_read(1) has just returned False because its audit
\* INSERT failed, and notification 1 is read.
C15_Witness ==
    /\ last.op = "mark_notification_read"
    /\ last.committed
    /\ last.ret = PyFalse
    /\ last.rowcount = 1
    /\ notifications # <<>>
    /\ notifications[1].notification_id = 1
    /\ notifications[1].read_at # NULL
    /\ audit_log = <<>>

\* The page handlers that change a domain record and then notify.
Handlers ==
    {"report_issue_form", "load_issue_details", "create_new_task", "show_project_modules"}

Ran(s, op) ==
    /\ procs[s].op = op
    /\ procs[s].pc = "statement"
    /\ procs'[s].pc = "audit"

\* C17: whatever the other session is in the middle of, the UPDATE of a
\* mark_all_notifications_read(u) is one step that makes every row of u
\* that is in the table and unread at that moment read (at one timestamp)
\* and changes no other row, so none stays unread and none is half-updated;
\* a row another session inserts is appended unread and is taken whole by
\* the next such UPDATE; an UPDATE that finds nothing unread (the second
\* of two concurrent calls) leaves the table as the first one left it; and
\* no other step of a session touches the table.
C17_MarkAllIsOneStatement ==
    [][\A s \in Sessions :
         /\ Ran(s, "mark_all_notifications_read") =>
              LET u == procs[s].args.user_id
              IN  /\ Len(notifications') = Len(notifications)
                  /\ \A i \in DOMAIN notifications :
                       notifications'[i] =
                         IF notifications[i].user_id = u /\ notifications[i].read_at = NULL
                         THEN [notifications[i] EXCEPT !.read_at = now']
                         ELSE notifications[i]
                  /\ get_unread_notification_count(notifications', u) = 0
                  /\ get_unread_notification_count(notifications, u) = 0
                       => notifications' = notifications
         /\ Ran(s, "create_notification") =>
              /\ Len(notifications') = Len(notifications) + 1
              /\ SubSeq(notifications', 1, Len(notifications)) = notifications
              /\ notifications'[Len(notifications')].user_id = procs[s].args.user_id
              /\ notifications'[Len(notifications')].read_at = NULL
         /\ ( (\A q \in Sessions : ~Ran(q, "mark_all_notifications_read")
                                   /\ ~Ran(q, "create_notification"))
              => notifications' = notifications )]_vars

\* Both sessions are inside mark_all_notifications_read(1) with their
\* UPDATEs run and their audit writes still to come, and the three
\* notifications of user 1, one of them inserted between the two UPDATEs,
\* are all read.
C17_Witness ==
    /\ \A s \in Sessions :
         /\ procs[s].op = "mark_all_notifications_read"
         /\ procs[s].pc = "audit"
    /\ Len(OwnedBy(notifications, 1)) = 3
    /\ get_unread_notification_count(notifications, 1) = 0
    /\ \E i, j \in DOMAIN notifications : notifications[i].read_at # notifications[j].read_at

\* The rows of the table that user_id does not own.
OwnedByOthers(table, user_id) ==
    LET Where(n) == n.user_id # user_id
    IN  SelectSeq(table, Where)

\* C18: a notify_multiple_users or notify_by_role whose INSERTs were all
\* accepted appends exactly one unread row per recipient, the i-th owned by
\* the i-th recipient, and leaves the rows before it as they were; a
\* mark_notification_read leaves every other row as it was; a
\* mark_all_notifications_read or delete_all_read_notifications of one user
\* leaves the rows of every other user present and as they were.
C18_OneRecordPerRecipient ==
    [][/\ ( /\ last'.op \in {"notify_multiple_users", "notify_by_role"}
            /\ last'.user_ids # <<>>
            /\ last'.rejected = {} )
          => /\ Len(notifications') = Len(notifications) + Len(last'.user_ids)
             /\ SubSeq(notifications', 1, Len(notifications)) = notifications
             /\ \A k \in DOMAIN last'.user_ids :
                  /\ notifications'[Len(notifications) + k].user_id = last'.user_ids[k]
                  /\ notifications'[Len(notifications) + k].read_at = NULL
                  /\ notifications'[Len(notifications) + k].entity_id
                       = last'.args.reference_id
       /\ ( /\ last'.op = "mark_notification_read"
            /\ last'.committed )
          => /\ Len(notifications') = Len(notifications)
             /\ \A i \in DOMAIN notifications :
                  notifications[i].notification_id # last'.notification_id
                  => notifications'[i] = notifications[i]
       /\ ( /\ last'.op \in {"mark_all_notifications_read",
                             "delete_all_read_notifications"}
            /\ last'.committed )
          => OwnedByOthers(notifications', last'.user_id)
               = OwnedByOthers(notifications, last'.user_id)]_vars

\* delete_all_read_notifications(2) has just removed user 2's record of a
\* delivery to users 1 and 2; user 1's record of it is still there, unread,
\* and the managers' record of another delivery is unread.
C18_Witness ==
    /\ last.op = "delete_all_read_notifications"
    /\ last.user_id = 2
    /\ last.rowcount = 1
    /\ OwnedBy(notifications, 2) = <<>>
    /\ Len(OwnedBy(notifications, 1)) = 1
    /\ OwnedBy(notifications, 1)[1].read_at = NULL
    /\ OwnedBy(notifications, 1)[1].entity_id = IssueReportedI9.reference_id
    /\ Len(OwnedBy(notifications, 3)) = 1
    /\ OwnedBy(notifications, 3)[1].read_at = NULL

\* The columns of a notifications row that no statement has in a SET clause.
Structure(n) ==
    [user_id |-> n.user_id, notification_type |-> n.notification_type,
     entity_type |-> n.entity_type, entity_id |-> n.entity_id,
     title |-> n.title, message |-> n.message, created_at |-> n.created_at]

\* C19: across create, list, mark_notification_read,
\* mark_all_notifications_read and delete_all_read_notifications, a
\* notification that exists before and after a step has the same recipient,
\* type, reference, title, message and created_at after it; a list changes
\* no row at all.
C19_StructureIsFrozen ==
    [][/\ \A i \in DOMAIN notifications, j \in DOMAIN notifications' :
            notifications'[j].notification_id = notifications[i].notification_id
            => Structure(notifications'[j]) = Structure(notifications[i])
       /\ last'.op = "get_user_notifications"
          => notifications' = notifications]_vars

\* mark_notification_read(1) has just set read_at of a notification created
\* at an earlier time; read_at now differs from created_at, and the title is
\* the one rendered at creation.
C19_Witness ==
    /\ last.op = "mark_notification_read"
    /\ last.notification_id = 1
    /\ last.rowcount = 1
    /\ Len(notifications) >= 1
    /\ notifications[1].notification_id = 1
    /\ notifications[1].read_at # NULL
    /\ notifications[1].read_at > notifications[1].created_at
    /\ notifications[1].title = TypeInfo(notifications[1].notification_type).title_template

\* C20: a notification that exists before a step is, after the step, in its
\* recipient's list (read ones included, limit as large as the table) with
\* the title and the message it was stored with.
C20_ListShowsStoredText ==
    [][\A i \in DOMAIN notifications, j \in DOMAIN notifications' :
          notifications'[j].notification_id = notifications[i].notification_id
          => LET listed == get_user_notifications(notifications',
                                                  notifications[i].user_id, MaxId, TRUE)
             IN  \E k \in DOMAIN listed :
                   /\ listed[k].notification_id = notifications[i].notification_id
                   /\ listed[k].title = notifications[i].title
                   /\ listed[k].message = notifications[i].message]_vars

\* C21: a notify_by_role that reached its role query appends one row for
\* every user who holds the role in the users table the call reads and
\* whose INSERT the store accepts, and no row for anybody else; a
\* register_user leaves the notifications and the roles of the users before
\* it as they were, so the user it adds owns no notification.
C21_RoleSnapshot ==
    [][/\ ( last'.op = "notify_by_role" /\ last'.role # "" )
          => LET fresh == SubSeq(notifications', Len(notifications) + 1,
                                 Len(notifications'))
             IN  /\ SubSeq(notifications', 1, Len(notifications)) = notifications
                 /\ \A u \in DOMAIN users :
                      Len(OwnedBy(fresh, u))
                        = IF users[u] = last'.role /\ u \notin last'.rejected
                          THEN 1 ELSE 0
                 /\ \A i \in DOMAIN fresh : fresh[i].user_id \in DOMAIN users
       /\ last'.op = "register_user"
          => /\ notifications' = notifications
             /\ \A u \in DOMAIN users : users'[u] = users[u]
             /\ \A u \in DOMAIN users' \ DOMAIN users :
                  OwnedBy(notifications', u) = <<>>]_vars

\* User 4 has just been registered as a manager, after a notify_by_role
\* that gave manager 3 a notification: user 4 holds the role and owns none.
C21_Witness ==
    /\ last.op = "register_user"
    /\ last.committed
    /\ last.user_id = 4
    /\ users[4] = "manager"
    /\ Len(OwnedBy(notifications, 3)) = 1
    /\ OwnedBy(notifications, 3)[1].notification_type = "issue_resolved"
    /\ OwnedBy(notifications, 4) = <<>>

\* C22: after a notify_task_due_soon whose INSERT was executed, the newest
\* row of the table is the assignee's, of type task_updated, and carries the
\* priority 'urgent' when days_remaining <= 1 and 'high' otherwise.
C22_RecordCarriesPriority ==
    ( last.op = "notify_task_due_soon" /\ last.committed )
    => LET row == notifications[Len(notifications)]
       IN  /\ row.notification_id = last.first_id
           /\ row.user_id = last.user_id
           /\ row.notification_type = "task_updated"
           /\ "priority" \in DOMAIN row
           /\ row.priority = IF last.days_remaining <= 1 THEN "urgent" ELSE "high"

\* C23: whenever a step makes an issue Resolved, notify_issue_resolved runs
\* in that step and, unless the store refuses its INSERTs, the step appends
\* an issue_resolved notification about that issue for every manager.
C23_ResolvedNotifiesManagers ==
    [][\A i \in DOMAIN csv'.issues :
          ( /\ csv'.issues[i].status = "Resolved"
            /\ i \in DOMAIN csv.issues
            /\ csv.issues[i].status # "Resolved" )
          => /\ last'.notify # NotCalled
             /\ \/ notifications' = notifications
                \/ \A m \in Managers :
                     \E k \in (Len(notifications) + 1)..Len(notifications') :
                       /\ notifications'[k].user_id = m
                       /\ notifications'[k].notification_type = "issue_resolved"
                       /\ notifications'[k].entity_id = csv'.issues[i].issue_id]_vars

C25_ReferenceIsTaskId ==
    ( /\ last.op = "create_new_task"
      /\ last.saved
      /\ next_id > last.first_id )
    => \E k \in DOMAIN notifications :
         /\ notifications[k].notification_id = last.first_id
         /\ notifications[k].user_id = last.args.user_id
         /\ notifications[k].notification_type = "task_assigned"
         /\ notifications[k].entity_type = "task"
         /\ notifications[k].entity_id = last.record_id
         /\ last.record_id = csv.tasks[Len(csv.tasks)].task_id

\* C26: a delete_notification step returns True when its DELETE was
\* executed and False when it was not, whoever calls, and removes the row
\* with that id and no other row.
C26_DeleteReturnsBool ==
    [][last'.op = "delete_notification"
       => /\ last'.ret = PyBool(last'.committed)
          /\ last'.committed
             => LET Keep(n) == n.notification_id # last'.notification_id
                IN  notifications' = SelectSeq(notifications, Keep)
          /\ ~last'.committed => notifications' = notifications]_vars

\* C27: across create, list, mark_notification_read,
\* mark_all_notifications_read and delete_all_read_notifications, a
\* notification that is read before a step is, after the step, either read
\* or no longer in the table.
C27_ReadStaysRead ==
    [][\A i \in DOMAIN notifications, j \in DOMAIN notifications' :
          ( /\ notifications'[j].notification_id = notifications[i].notification_id
            /\ notifications[i].read_at # NULL )
          => notifications'[j].read_at # NULL]_vars

\* mark_all_notifications_read has just marked the second notification; the
\* first one, read at an earlier time, is still read, with its own read_at.
C27_Witness ==
    /\ last.op = "mark_all_notifications_read"
    /\ last.rowcount = 1
    /\ Len(notifications) >= 2
    /\ notifications[1].read_at # NULL
    /\ notifications[2].read_at # NULL
    /\ notifications[1].read_at < notifications[2].read_at

\* C28: in every page pass, through app.py or through a script of pages/,
\* made after the session's expiry, is_authenticated returns False, the
\* pass leaves the session without the flag and without user data, and
\* get_current_user and has_permission then return None and False whatever
\* the store does; a pass of an authenticated session before its expiry
\* leaves an expiry that is not earlier than the one it found.
C28_ExpiredSessionIsSignedOut ==
    [][last'.op \in {"main", "page"}
       => /\ ( session.session_expiry \notin {Absent, NULL}
               /\ wall > session.session_expiry )
             => /\ last'.ret = PyFalse
                /\ ~session'.authenticated
                /\ session'.user_data = NULL
                /\ \A env \in Envs(now', {}, TRUE) :
                     /\ get_current_user_at(Db', session', wall', env).ret = NULL
                     /\ ~get_current_user_at(Db', session', wall', env).raised
                     /\ \A p \in Permission :
                          has_permission(Db', session', p, wall', env).ret = PyFalse
          /\ ( session.authenticated
               /\ session.session_expiry \notin {Absent, NULL}
               /\ wall < session.session_expiry )
             => /\ session'.session_expiry \notin {Absent, NULL}
                /\ session'.session_expiry >= session.session_expiry]_vars

\* What a session that nobody is logged in to answers at the time of the
\* state, whatever the store does: is_authenticated False, get_current_user
\* None and has_permission False for every permission.
SignedOut(db, sess, t) ==
    \A env \in Envs(0, {}, TRUE) :
      /\ is_authenticated(db, sess, t, env).ret = PyFalse
      /\ get_current_user_at(db, sess, t, env).ret = NULL
      /\ ~get_current_user_at(db, sess, t, env).raised
      /\ \A p \in Permission : has_permission(db, sess, p, t, env).ret = PyFalse

\* C29: a call of logout leaves a session that is signed out, and the
\* session logout has reset (its session_expiry is None) stays signed out
\* through every step that is not a login returning True; an authenticated
\* session holds the permission dict of its user's role, and has_permission
\* is True for no permission that the role does not grant.
C29_SignedOutAfterLogout ==
    [][/\ last'.op = "logout" => SignedOut(Db', session', wall')
       /\ ( session.session_expiry = NULL
            /\ ~(last'.op = "login" /\ last'.ret = PyTrue) )
          => SignedOut(Db', session', wall')
       /\ session'.authenticated
          => LET role == LowerRole(users'[session'.user_data])
             IN  /\ session'.permissions = [kind |-> "dict", items |-> PERMISSIONS[role]]
                 /\ \A env \in Envs(0, {}, TRUE), p \in Permission :
                      has_permission(Db', session', p, wall', env).ret = PyTrue
                        => PERMISSIONS[role][p]]_vars

\* The record ids of a file, in row order.
IdsOf(df, column) == [i \in DOMAIN df |-> df[i][column]]

\* C30: every create_issue and create_task that saved its file, whatever
\* the other session did between its load and its save, leaves every row
\* the file held in place, followed by one new row that carries the id the
\* call made up and its caller, and no two rows of the file share an id.
C30_NoRecordLostIdsUnique ==
    [][( last'.saved /\ \E s \in Sessions : procs[s].pc = "loaded" /\ procs'[s].pc = "idle" )
       => LET before == IF last'.op = "create_issue" THEN csv.issues ELSE csv.tasks
              after == IF last'.op = "create_issue" THEN csv'.issues ELSE csv'.tasks
              column == IF last'.op = "create_issue" THEN "issue_id" ELSE "task_id"
              by == IF last'.op = "create_issue" THEN "reported_by" ELSE "assigned_by"
          IN  /\ Len(after) = Len(before) + 1
              /\ SubSeq(after, 1, Len(before)) = before
              /\ after[Len(after)][column] = last'.record_id
              /\ after[Len(after)][by] = last'.user_id
              /\ \A i, j \in DOMAIN after :
                   IdsOf(after, column)[i] = IdsOf(after, column)[j] => i = j]_vars

====
